---------------------------- MODULE Spec2Model ----------------------------
(***************************************************************************)
(* A model of the query pipeline of talk-to-oura: the generation client    *)
(* with retry and model fallback (server/utils/gemini.ts), the per-session *)
(* response cache (server/cache.ts) and the cache resolution of the query  *)
(* handler (server/routes/data.ts).                                        *)
(*                                                                         *)
(* JavaScript strings are sequences of one-character strings, so that      *)
(* substring search, split and the lexicographic comparison of ISO dates   *)
(* are computed the way the code computes them.                            *)
(***************************************************************************)
EXTENDS Integers, Sequences, FiniteSets, TLC

VARIABLES
  \* ---- generateWithRetry (server/utils/gemini.ts) ----
  maxRetries,   \* the maxRetries parameter
  modelIx,      \* index in MODELS of the loop variable `model`
  attempt,      \* the loop variable `attempt`
  lastError,    \* the local `lastError`
  genPc,        \* "call" | "delay" | "returned" | "thrown" | "off"
  genResult,    \* the stream returned or the error thrown
  events,       \* history: the calls made and the delays taken, in order
  \* ---- OuraCache (server/cache.ts) ----
  cache,        \* the Map `cache`: <<[key, entry]>> in insertion order
  now,          \* Date.now(), in ms since the cache was constructed
  ticks,        \* how often the clock has advanced
  ret,          \* the last cache operation, its arguments and what it returned
  \* ---- the query handler (server/routes/data.ts) ----
  tokens,       \* the sessions that hold an ouraAccessToken
  slot,         \* the requests in flight: each one's locals and position
  \* ---- a pure function applied to drawn arguments ----
  fnIn,         \* the arguments
  fnOut,        \* the value returned
  \* ---- the sessions' OAuth data (server/oura.ts, server/routes/auth.ts) ----
  session,      \* req.session of each session: tokens, expiry, oauthState
  fetcher,      \* the per-category reads of the fetch in progress
  endpoint,     \* history: the calls made to the token endpoint, in order
  callback      \* each session's OAuth callback: its position, its parameters,
                \* its redirect, and (history) the states issued and not
                \* consumed, and whether the session's cache entry was written
                \* before the session last disconnected

genVars == <<maxRetries, modelIx, attempt, lastError, genPc, genResult, events>>

cacheVars == <<cache, now, ticks, ret>>
queryVars == <<tokens, slot>>
fnVars == <<fnIn, fnOut>>
authVars == <<session, fetcher, endpoint, callback>>

vars == <<genVars, cacheVars, queryVars, fnVars, authVars>>

RECURSIVE Pow2(_)
Pow2(n) == IF n = 0 THEN 1 ELSE 2 * Pow2(n - 1)

(***************************************************************************)
(* String.prototype.includes: sub occurs in s as a contiguous substring.   *)
(***************************************************************************)
Includes(s, sub) ==
  \E i \in 1..(Len(s) - Len(sub) + 1) : SubSeq(s, i, i + Len(sub) - 1) = sub

\* ------------------------------------------------------------------------
\* generateWithRetry
\* ------------------------------------------------------------------------

MODELS == <<"gemini-3-flash-preview", "gemini-2.5-flash">>

DefaultMaxRetries == 2

\* The largest maxRetries the model tries.
MaxRetriesBound == 3

Str429 == <<"4", "2", "9">>
StrResourceExhausted ==
  <<"R", "E", "S", "O", "U", "R", "C", "E", "_",
    "E", "X", "H", "A", "U", "S", "T", "E", "D">>

\* Messages of the errors the generation call is made to throw.
MsgTooManyRequests == <<"g", "o", "t", " ", "4", "2", "9", "!">>
MsgQuota == <<"{">> \o StrResourceExhausted \o <<"}">>
MsgInternal == <<"g", "o", "t", " ", "5", "0", "0", "!">>
MsgNearMiss == <<"4", "2", " ", "9", "R", "E", "S", "O", "U", "R", "C", "E">>

RateLimitMessages == {MsgTooManyRequests, MsgQuota}
OtherMessages == {MsgInternal, MsgNearMiss}

\* The jitter Math.random() * 1000 can produce, in ms, sampled.
JitterSamples == {0, 999}

NoError == [id |-> 0, hasMessage |-> FALSE, message |-> <<>>]
AllModelsFailed ==
  [id |-> -1, hasMessage |-> TRUE,
   message |-> <<"A", "l", "l", " ", "m", "o", "d", "e", "l", "s", " ",
                 "f", "a", "i", "l", "e", "d">>]

\* The errors call number n can throw: each call throws an error of its own;
\* one of them carries no message at all.
ErrorsOfCall(n) ==
  {[id |-> n, hasMessage |-> TRUE, message |-> m] :
      m \in RateLimitMessages \cup OtherMessages}
  \cup {[id |-> n, hasMessage |-> FALSE, message |-> <<>>]}

\* error?.message?.includes("429") || error?.message?.includes("RESOURCE_EXHAUSTED")
Is429Always(error) == TRUE
Is429(error) ==
  /\ error.hasMessage
  /\ \/ Includes(error.message, Str429)
     \/ Includes(error.message, StrResourceExhausted)

\* attempt < maxRetries - 1: another attempt on this model remains
AttemptsRemainOffByOne(a, mr) == a < mr
AttemptsRemainInverted(a, mr) == a > mr - 1
AttemptsRemain(a, mr) == a < mr - 1

\* Math.pow(2, attempt) * 1000 + Math.random() * 1000
BackoffDelayLinear(a, jitter) == 2 * a * 1000 + jitter
BackoffDelay(a, jitter) == Pow2(a) * 1000 + jitter

\* lastError = error
CaughtErrorKeepFirst(prev, error) == IF prev = NoError THEN error ELSE prev
CaughtError(prev, error) == error

Calls == SelectSeq(events, LAMBDA e : e.kind = "call")
Delays == SelectSeq(events, LAMBDA e : e.kind = "delay")

CallEvent(m, a, ok, err) ==
  [kind |-> "call", model |-> m, attempt |-> a, ok |-> ok, error |-> err,
   delay |-> 0]
DelayEvent(m, a, d) ==
  [kind |-> "delay", model |-> m, attempt |-> a, ok |-> FALSE,
   error |-> NoError, delay |-> d]

\* The for loops: with the inner loop at (m, a), the next iteration to run,
\* or the throw after the outer loop when there is none.
GenContinueAt(m, a, err) ==
  IF a < maxRetries
  THEN /\ modelIx' = m
       /\ attempt' = a
       /\ genPc' = "call"
       /\ genResult' = genResult
  ELSE IF m < Len(MODELS) /\ 0 < maxRetries
  THEN /\ modelIx' = m + 1
       /\ attempt' = 0
       /\ genPc' = "call"
       /\ genResult' = genResult
  ELSE /\ modelIx' = Len(MODELS) + 1
       /\ attempt' = 0
       /\ genPc' = "thrown"
       /\ genResult' = [kind |-> "error", model |-> 0,
                        error |-> IF err = NoError THEN AllModelsFailed ELSE err]

\* `break`: leave the inner loop, go on with the next model.
GenBreakFrom(m, err) == GenContinueAt(m, maxRetries, err)

\* One generateContentStream call and its result: the stream is returned, or
\* the catch block runs up to its await, its break or its throw.
GenCallSucceeds ==
  /\ genPc = "call"
  /\ events' = Append(events, CallEvent(modelIx, attempt, TRUE, NoError))
  /\ genPc' = "returned"
  /\ genResult' = [kind |-> "stream", model |-> modelIx, error |-> NoError]
  /\ UNCHANGED <<maxRetries, modelIx, attempt, lastError>>

GenCallFails ==
  /\ genPc = "call"
  /\ \E error \in ErrorsOfCall(Len(Calls) + 1), jitter \in JitterSamples :
       LET caught == CaughtError(lastError, error)
           called == CallEvent(modelIx, attempt, FALSE, error)
       IN  /\ lastError' = caught
           /\ IF Is429(error) /\ AttemptsRemain(attempt, maxRetries)
              THEN /\ events' = events \o
                        <<called,
                          DelayEvent(modelIx, attempt, BackoffDelay(attempt, jitter))>>
                   /\ genPc' = "delay"
                   /\ UNCHANGED <<modelIx, attempt, genResult>>
              ELSE IF Is429(error)
              THEN /\ events' = Append(events, called)
                   /\ GenBreakFrom(modelIx, caught)
              ELSE /\ events' = Append(events, called)
                   /\ genPc' = "thrown"
                   /\ genResult' = [kind |-> "error", model |-> 0, error |-> error]
                   /\ UNCHANGED <<modelIx, attempt>>
  /\ UNCHANGED maxRetries

\* The backoff timer fires: attempt++ and the loop goes on.
GenBackoffElapsed ==
  /\ genPc = "delay"
  /\ GenContinueAt(modelIx, attempt + 1, lastError)
  /\ UNCHANGED <<maxRetries, lastError, events>>

GenStart(mr) ==
  /\ maxRetries = mr
  /\ modelIx = 1
  /\ attempt = 0
  /\ lastError = NoError
  /\ genPc = "call"
  /\ genResult = [kind |-> "none", model |-> 0, error |-> NoError]
  /\ events = <<>>


\* ------------------------------------------------------------------------
\* JavaScript strings and Map
\* ------------------------------------------------------------------------

\* The UTF-16 code unit of a character (of the characters dates are made of).
CharCode(c) ==
  CASE c = "-" -> 45
    [] c = "0" -> 48 [] c = "1" -> 49 [] c = "2" -> 50 [] c = "3" -> 51
    [] c = "4" -> 52 [] c = "5" -> 53 [] c = "6" -> 54 [] c = "7" -> 55
    [] c = "8" -> 56 [] c = "9" -> 57
    [] c = ":" -> 58 [] c = "T" -> 84 [] c = "Z" -> 90

\* a < b on strings: by code unit, a proper prefix first.
RECURSIVE JsLt(_, _)
JsLt(a, b) ==
  IF b = <<>> THEN FALSE
  ELSE IF a = <<>> THEN TRUE
  ELSE IF CharCode(Head(a)) < CharCode(Head(b)) THEN TRUE
  ELSE IF CharCode(Head(a)) > CharCode(Head(b)) THEN FALSE
  ELSE JsLt(Tail(a), Tail(b))

JsGtOrEqual(a, b) == a = b \/ JsLt(b, a)
JsGt(a, b) == JsLt(b, a)
JsLe(a, b) == a = b \/ JsLt(a, b)
JsGe(a, b) == a = b \/ JsLt(b, a)

\* str.split('T')[0]: what precedes the first "T", or all of it.
RECURSIVE SplitT0(_)
SplitT0(str) ==
  IF str = <<>> \/ Head(str) = "T" THEN <<>>
  ELSE <<Head(str)>> \o SplitT0(Tail(str))

\* Map: has, get, set (a present key keeps its place, a new one is appended),
\* delete.
MapHas(map, key) == \E i \in 1..Len(map) : map[i].key = key
MapGet(map, key) == map[CHOOSE i \in 1..Len(map) : map[i].key = key].entry
MapSetAppend(map, key, entry) == Append(map, [key |-> key, entry |-> entry])
MapSet(map, key, entry) ==
  IF MapHas(map, key)
  THEN [i \in 1..Len(map) |->
          IF map[i].key = key THEN [key |-> key, entry |-> entry] ELSE map[i]]
  ELSE Append(map, [key |-> key, entry |-> entry])
MapDelete(map, key) == SelectSeq(map, LAMBDA kv : kv.key # key)


\* ------------------------------------------------------------------------
\* Text: toLowerCase, the regular expressions of date-range.ts, dates
\* ------------------------------------------------------------------------

UpperCase ==
  <<"A", "B", "C", "D", "E", "F", "G", "H", "I", "J", "K", "L", "M", "N", "O",
    "P", "Q", "R", "S", "T", "U", "V", "W", "X", "Y", "Z">>
LowerCase ==
  <<"a", "b", "c", "d", "e", "f", "g", "h", "i", "j", "k", "l", "m", "n", "o",
    "p", "q", "r", "s", "t", "u", "v", "w", "x", "y", "z">>
Digits == <<"0", "1", "2", "3", "4", "5", "6", "7", "8", "9">>

\* The characters of a string, in order.
Chars(str) == [i \in 1..Len(str) |-> SubSeq(str, i, i)]

\* String.prototype.toLowerCase
ToLowerCase(s) ==
  [i \in 1..Len(s) |->
     IF \E k \in 1..26 : UpperCase[k] = s[i]
     THEN LowerCase[CHOOSE k \in 1..26 : UpperCase[k] = s[i]]
     ELSE s[i]]

\* \d, \w, \s
IsDigit(c) == \E k \in 1..10 : Digits[k] = c
IsWordChar(c) ==
  \/ IsDigit(c)
  \/ c = "_"
  \/ \E k \in 1..26 : UpperCase[k] = c \/ LowerCase[k] = c
IsSpace(c) == c \in {" ", "\t", "\n"}

\* \b at position i: exactly one of the characters before and at i is a \w
Boundary(s, i) ==
  (i - 1 \in 1..Len(s) /\ IsWordChar(s[i - 1])) # (i \in 1..Len(s) /\ IsWordChar(s[i]))

\* the text w stands at position i
TextAt(s, i, w) ==
  /\ i >= 1
  /\ i + Len(w) - 1 <= Len(s)
  /\ SubSeq(s, i, i + Len(w) - 1) = w

\* the first position from i on that holds no \s, no \d (Len(s) + 1: the end)
SkipSpaces(s, i) ==
  CHOOSE k \in i..(Len(s) + 1) :
    /\ k = Len(s) + 1 \/ ~IsSpace(s[k])
    /\ \A j \in i..(k - 1) : IsSpace(s[j])
SkipDigits(s, i) ==
  CHOOSE k \in i..(Len(s) + 1) :
    /\ k = Len(s) + 1 \/ ~IsDigit(s[k])
    /\ \A j \in i..(k - 1) : IsDigit(s[j])

\* \d{4}-\d{2}-\d{2} at position i
IsoAt(s, i) ==
  /\ i >= 1
  /\ i + 9 <= Len(s)
  /\ \A k \in {0, 1, 2, 3, 5, 6, 8, 9} : IsDigit(s[i + k])
  /\ s[i + 4] = "-"
  /\ s[i + 7] = "-"

\* Number(digits)
DigitValue ==
  [c \in {Digits[k] : k \in 1..10} |-> (CHOOSE k \in 1..10 : Digits[k] = c) - 1]

RECURSIVE NumberOf(_)
NumberOf(digits) ==
  IF digits = <<>> THEN 0
  ELSE 10 * NumberOf(SubSeq(digits, 1, Len(digits) - 1))
       + DigitValue[digits[Len(digits)]]

\* The calendar: a Date is the number of its day since 1970-01-01 (UTC); a
\* day's year, month (1..12) and day of the month, and back.
CivilOfMonth(era, yoe, doy, mp) ==
  [year |-> yoe + era * 400 + (IF mp < 10 THEN 0 ELSE 1),
   month |-> IF mp < 10 THEN mp + 3 ELSE mp - 9,
   day |-> doy - (153 * mp + 2) \div 5 + 1]
CivilOfDay(era, yoe, doy) == CivilOfMonth(era, yoe, doy, (5 * doy + 2) \div 153)
CivilOfYear(era, doe, yoe) ==
  CivilOfDay(era, yoe, doe - (365 * yoe + yoe \div 4 - yoe \div 100))
CivilOfEra(era, doe) ==
  CivilOfYear(era, doe,
              (doe - doe \div 1460 + doe \div 36524 - doe \div 146096) \div 365)
CivilOfEpoch(z) == CivilOfEra(z \div 146097, z - (z \div 146097) * 146097)
CivilFromDays(days) == CivilOfEpoch(days + 719468)

DaysOfEra(era, yoe, doy) ==
  era * 146097 + yoe * 365 + yoe \div 4 - yoe \div 100 + doy - 719468
DaysOfYear(y, doy) == DaysOfEra(y \div 400, y - (y \div 400) * 400, doy)
DaysFromCivil(year, month, day) ==
  DaysOfYear(IF month <= 2 THEN year - 1 ELSE year,
             (153 * (IF month > 2 THEN month - 3 ELSE month + 9) + 2) \div 5
               + day - 1)

\* new Date(year, monthIndex, day): monthIndex counts from 0 and may be -1,
\* day may be 0 (the day before the first of the month)
NewDate(year, monthIndex, day) ==
  DaysFromCivil(IF monthIndex < 0 THEN year - 1 ELSE year,
                IF monthIndex < 0 THEN monthIndex + 13 ELSE monthIndex + 1, 1)
    + day - 1

\* formatDate: date.toISOString().split("T")[0]; a year outside 0..9999 is
\* written with a sign and six digits
Digit(n) == Digits[n + 1]
FormatFourDigits(y) ==
  <<Digit(y \div 1000), Digit((y \div 100) % 10), Digit((y \div 10) % 10),
    Digit(y % 10)>>
FormatSixDigits(y) ==
  <<Digit((y \div 100000) % 10), Digit((y \div 10000) % 10)>>
    \o FormatFourDigits(y % 10000)
FormatYear(year) ==
  IF year \in 0..9999 THEN FormatFourDigits(year)
  ELSE IF year < 0 THEN <<"-">> \o FormatSixDigits(-year)
  ELSE <<"+">> \o FormatSixDigits(year)
FormatCivil(c) ==
  FormatYear(c.year)
    \o <<"-", Digit(c.month \div 10), Digit(c.month % 10), "-",
         Digit(c.day \div 10), Digit(c.day % 10)>>
FormatDate(date) == FormatCivil(CivilFromDays(date))


\* ------------------------------------------------------------------------
\* Date-range resolution (server/utils/date-range.ts).  The server's clock
\* is taken to run in UTC, so that local and UTC calendar days agree.
\* ------------------------------------------------------------------------

DateRange(startDate, endDate, usesCustomRange) ==
  [startDate |-> startDate, endDate |-> endDate,
   usesCustomRange |-> usesCustomRange]

NoRange == DateRange(<<>>, <<>>, FALSE)

\* What a call gives: a DateRange, null, or an exception.
Returned(range) == [kind |-> "range", range |-> range]
ReturnedNull == [kind |-> "null", range |-> NoRange]
Thrown == [kind |-> "throws", range |-> NoRange]

\* A Date is valid up to 100,000,000 days either side of 1970-01-01;
\* toISOString throws a RangeError on an invalid one.
IsValidDate(date) == date \in -100000000..100000000

\* toRange(start, end)
ToRange(start, end) ==
  IF IsValidDate(start) /\ IsValidDate(end)
  THEN Returned(DateRange(FormatDate(start), FormatDate(end), TRUE))
  ELSE Thrown

\* the least position at which P holds
LeftMost(s, P(_)) ==
  CHOOSE i \in 1..Len(s) : P(i) /\ \A j \in 1..(i - 1) : ~P(j)

\* The pair pattern matching nowhere.
RangeMatchNever(q, i) == 0

\* /(\d{4}-\d{2}-\d{2})\s*(to|-)\s*(\d{4}-\d{2}-\d{2})/ at position i: where
\* the second date stands, or 0
RangeMatchEnd(q, i) ==
  IF ~IsoAt(q, i) THEN 0
  ELSE LET j == SkipSpaces(q, i + 10)
           k == IF TextAt(q, j, Chars("to")) THEN SkipSpaces(q, j + 2)
                ELSE IF TextAt(q, j, Chars("-")) THEN SkipSpaces(q, j + 1)
                ELSE 0
       IN  IF k > 0 /\ IsoAt(q, k) THEN k ELSE 0

\* /\b(\d{4}-\d{2}-\d{2})\b/ at position i
SingleDateAt(q, i) == Boundary(q, i) /\ IsoAt(q, i) /\ Boundary(q, i + 10)

\* /\bw\b/ at position i, and anywhere
WordAt(q, i, w) == Boundary(q, i) /\ TextAt(q, i, w) /\ Boundary(q, i + Len(w))
HasWord(q, w) == \E i \in 1..Len(q) : WordAt(q, i, w)

\* /\bw1\s+w2\b/ anywhere
HasWordPair(q, w1, w2) ==
  \E i \in 1..Len(q) :
    /\ Boundary(q, i)
    /\ TextAt(q, i, w1)
    /\ LET a == SkipSpaces(q, i + Len(w1))
       IN  a > i + Len(w1) /\ TextAt(q, a, w2) /\ Boundary(q, a + Len(w2))

\* /\b(last|past|previous)\s+(\d+)\s+(days?|weeks?|months?|years?)\b/ at
\* position i: the amount and the unit matched, or no match
RelativeWords == 
  {Chars("last"), Chars("past"), Chars("previous")}
RelativeUnits == 
  {Chars("day"), Chars("week"), Chars("month"), Chars("year")}
RelativeMatchAt(q, i) ==
  LET words == {w \in RelativeWords : Boundary(q, i) /\ TextAt(q, i, w)}
  IN  IF words = {} THEN [matched |-> FALSE, amount |-> 0, unit |-> <<>>]
      ELSE LET w == CHOOSE x \in words : TRUE
               a == SkipSpaces(q, i + Len(w))
               b == SkipDigits(q, a)
               c == SkipSpaces(q, b)
               units == {u \in RelativeUnits :
                           /\ TextAt(q, c, u)
                           /\ \/ Boundary(q, c + Len(u))
                              \/ /\ TextAt(q, c + Len(u), Chars("s"))
                                 /\ Boundary(q, c + Len(u) + 1)}
           IN  IF a > i + Len(w) /\ b > a /\ c > b /\ units # {}
               THEN [matched |-> TRUE, amount |-> NumberOf(SubSeq(q, a, b - 1)),
                     unit |-> CHOOSE u \in units : TRUE]
               ELSE [matched |-> FALSE, amount |-> 0, unit |-> <<>>]

\* /\b(20\d{2})\b/ at position i
YearAt(q, i) ==
  /\ Boundary(q, i)
  /\ TextAt(q, i, Chars("20"))
  /\ i + 3 <= Len(q)
  /\ IsDigit(q[i + 2])
  /\ IsDigit(q[i + 3])
  /\ Boundary(q, i + 4)

\* parseDateRangeFromQuery(query, today)
\* date.setDate(date.getDate() - 1)
DayBeforeIsSameDay(date) == date
DayBefore(date) == date - 1

\* What parseDateRangeFromQuery returns on a match of each of its patterns.
RangeMatchReturned(q, i, k) ==
  Returned(DateRange(SubSeq(q, i, i + 9), SubSeq(q, k, k + 9), TRUE))
SingleDateReturned(q, i) ==
  Returned(DateRange(SubSeq(q, i, i + 9), SubSeq(q, i, i + 9), TRUE))
\* The amount taken as days whatever the unit.
RelativeDaysAsDays(m) == m.amount

\* amount * k; a product beyond 1,000,000,000 days is written as that many,
\* which is as far outside the range of a Date as the product itself
TimesDays(amount, k) ==
  IF amount > 1000000000 \div k THEN 1000000000 ELSE amount * k
RelativeDays(m) ==
  IF m.unit = Chars("year") THEN TimesDays(m.amount, 365)
  ELSE IF m.unit = Chars("month") THEN TimesDays(m.amount, 30)
  ELSE IF m.unit = Chars("week") THEN TimesDays(m.amount, 7)
  ELSE m.amount
YearReturned(year) == ToRange(NewDate(year, 0, 1), NewDate(year, 11, 31))

\* parseDateRangeFromQuery on the lower-cased query q, with todayStr and the
\* year and month of today
ParseLowerCased(q, today, todayStr, civil) ==
  IF \E i \in 1..Len(q) : RangeMatchEnd(q, i) > 0
  THEN RangeMatchReturned(q, LeftMost(q, LAMBDA i : RangeMatchEnd(q, i) > 0),
         RangeMatchEnd(q, LeftMost(q, LAMBDA i : RangeMatchEnd(q, i) > 0)))
  ELSE IF \E i \in 1..Len(q) : SingleDateAt(q, i)
  THEN SingleDateReturned(q, LeftMost(q, LAMBDA i : SingleDateAt(q, i)))
  ELSE IF HasWord(q, Chars("today"))
  THEN Returned(DateRange(todayStr, todayStr, TRUE))
  ELSE IF \/ HasWord(q, Chars("yesterday"))
          \/ HasWord(q, Chars("last night"))
  THEN Returned(DateRange(FormatDate(DayBefore(today)),
                          FormatDate(DayBefore(today)), TRUE))
  ELSE IF \E i \in 1..Len(q) : RelativeMatchAt(q, i).matched
  THEN ToRange(today - RelativeDays(RelativeMatchAt(q,
                   LeftMost(q, LAMBDA i : RelativeMatchAt(q, i).matched))),
               today)
  ELSE IF \/ HasWordPair(q, Chars("this"), Chars("week"))
          \/ HasWordPair(q, Chars("last"), Chars("week"))
  THEN ToRange(today - 7, today)
  ELSE IF HasWordPair(q, Chars("this"), Chars("month"))
  THEN ToRange(NewDate(civil.year, civil.month - 1, 1), today)
  ELSE IF HasWordPair(q, Chars("last"), Chars("month"))
  THEN ToRange(NewDate(civil.year, civil.month - 2, 1),
               NewDate(civil.year, civil.month - 1, 0))
  ELSE IF HasWordPair(q, Chars("this"), Chars("year"))
  THEN ToRange(NewDate(civil.year, 0, 1), today)
  ELSE IF HasWordPair(q, Chars("last"), Chars("year"))
  THEN ToRange(NewDate(civil.year - 1, 0, 1), NewDate(civil.year - 1, 11, 31))
  ELSE IF \E i \in 1..Len(q) : YearAt(q, i)
  THEN YearReturned(NumberOf(SubSeq(q, LeftMost(q, LAMBDA i : YearAt(q, i)),
                                    LeftMost(q, LAMBDA i : YearAt(q, i)) + 3)))
  ELSE ReturnedNull

\* parseDateRangeFromQuery(query, today)
ParseDateRangeFromQuery(query, today) ==
  ParseLowerCased(ToLowerCase(query), today, FormatDate(today),
                  CivilFromDays(today))

\* DATE_PATTERNS.some(pattern => pattern.test(query))
MonthNames == 
  {Chars("january"), Chars("february"), Chars("march"),
   Chars("april"), Chars("may"), Chars("june"), Chars("july"),
   Chars("august"), Chars("september"), Chars("october"),
   Chars("november"), Chars("december")}
MonthAbbreviations == 
  {Chars("jan"), Chars("feb"), Chars("mar"), Chars("apr"),
   Chars("may"), Chars("jun"), Chars("jul"), Chars("aug"),
   Chars("sep"), Chars("oct"), Chars("nov"), Chars("dec")}
HasDateReference(query) ==
  LET q == ToLowerCase(query)
  IN  \/ \E i \in 1..Len(q), w \in MonthNames :
           /\ Boundary(q, i)
           /\ TextAt(q, i, w)
           /\ LET a == SkipSpaces(q, i + Len(w))
              IN  /\ a > i + Len(w)
                  /\ a + 3 <= Len(q)
                  /\ \A k \in 0..3 : IsDigit(q[a + k])
                  /\ Boundary(q, a + 4)
      \/ \E i \in 1..Len(q) : RelativeMatchAt(q, i).matched
      \/ \E w1 \in RelativeWords \cup {Chars("this")},
            w2 \in {Chars("week"), Chars("month"), Chars("year")} :
           HasWordPair(q, w1, w2)
      \/ \E i \in 1..Len(q) : SingleDateAt(q, i)
      \/ \E i \in 1..Len(q), w \in MonthAbbreviations :
           /\ Boundary(q, i)
           /\ TextAt(q, i, w)
           /\ LET a == SkipSpaces(q, i + Len(w))
              IN  a > i + Len(w) /\ a <= Len(q) /\ IsDigit(q[a])
      \/ \E i \in 1..Len(q) : YearAt(q, i)
      \/ HasWord(q, Chars("year")) \/ HasWord(q, Chars("yr"))

\* What the date-extraction model's reply comes to: the call throws, the text
\* holds no JSON object, the JSON does not parse, it lacks both dates or one
\* of them, or it gives two dates.
AiFailure(kind) == [kind |-> kind, startDate |-> <<>>, endDate |-> <<>>]
AiDates(startDate, endDate) ==
  [kind |-> "dates", startDate |-> startDate, endDate |-> endDate]

\* extractDateRange giving back the parsed range as it is.
ParsedRangeAsParsed(parsedRange, todayStr) == Returned(parsedRange)

\* extractDateRange on a range parsed from the query: swapped when it runs
\* backwards, else its end clamped to today
ParsedRangeReturned(parsedRange, todayStr) ==
  IF JsGt(parsedRange.startDate, parsedRange.endDate)
  THEN Returned(DateRange(parsedRange.endDate, parsedRange.startDate, TRUE))
  ELSE Returned(DateRange(parsedRange.startDate,
                          IF JsGt(parsedRange.endDate, todayStr)
                          THEN todayStr ELSE parsedRange.endDate,
                          TRUE))

\* extractDateRange on the dates of the model's reply: swapped, then clamped
AiRangeReturned(startDate, endDate, todayStr) ==
  IF JsGt(startDate, endDate)
  THEN Returned(DateRange(endDate,
                          IF JsGt(startDate, todayStr) THEN todayStr ELSE startDate,
                          TRUE))
  ELSE Returned(DateRange(startDate,
                          IF JsGt(endDate, todayStr) THEN todayStr ELSE endDate,
                          TRUE))

\* extractDateRange taking the dates of any reply that parses.
ExtractDateRangeTrusting(parsed, hasDateReference, reply, todayStr, defaultRange) ==
  IF parsed.kind = "throws" THEN Thrown
  ELSE IF parsed.kind = "range" THEN ParsedRangeReturned(parsed.range, todayStr)
  ELSE IF ~hasDateReference THEN Returned(defaultRange)
  ELSE IF reply.kind = "dates"
  THEN AiRangeReturned(reply.startDate, reply.endDate, todayStr)
  ELSE Returned(defaultRange)

\* extractDateRange after parseDateRangeFromQuery and the DATE_PATTERNS test;
\* a date that the reply lacks is the empty string here, and is falsy there
ExtractDateRangeFrom(parsed, hasDateReference, reply, todayStr, defaultRange) ==
  IF parsed.kind = "throws" THEN Thrown
  ELSE IF parsed.kind = "range" THEN ParsedRangeReturned(parsed.range, todayStr)
  ELSE IF ~hasDateReference THEN Returned(defaultRange)
  ELSE IF reply.kind = "dates" /\ reply.startDate # <<>> /\ reply.endDate # <<>>
  THEN AiRangeReturned(reply.startDate, reply.endDate, todayStr)
  ELSE Returned(defaultRange)

\* extractDateRange(query, ai), on day `today` and with the model's reply
ExtractDateRange(query, today, reply) ==
  ExtractDateRangeFrom(ParseDateRangeFromQuery(query, today),
                       HasDateReference(query), reply, FormatDate(today),
                       DateRange(FormatDate(today - 7), FormatDate(today), FALSE))

\* ------------------------------------------------------------------------
\* Sample data: days, items, heart-rate readings
\* ------------------------------------------------------------------------

Day1 == <<"2", "0", "2", "4", "-", "1", "2", "-", "3", "1">>
Day2 == <<"2", "0", "2", "5", "-", "0", "1", "-", "0", "3">>
Day3 == <<"2", "0", "2", "5", "-", "0", "1", "-", "0", "9">>
Day4 == <<"2", "0", "2", "5", "-", "0", "1", "-", "1", "0">>
Day5 == <<"2", "0", "2", "5", "-", "0", "2", "-", "0", "1">>

\* The sample days, in calendar order.
SampleDays == <<Day1, Day2, Day3, Day4, Day5>>
Days == {SampleDays[i] : i \in 1..Len(SampleDays)}

\* The place of a day YYYY-MM-DD in the calendar.
DayIndex(day) ==
  LET V(i) == DigitValue[day[i]]
  IN  DaysFromCivil(1000 * V(1) + 100 * V(2) + 10 * V(3) + V(4),
                    10 * V(6) + V(7), 10 * V(9) + V(10))

Morning == <<"T", "0", "8", ":", "0", "0", ":", "0", "0", "Z">>
Evening == <<"T", "2", "3", ":", "5", "9", ":", "5", "9", "Z">>

Item(id, day) == [id |-> id, day |-> day]
Reading(bpm, day, time) ==
  [bpm |-> bpm, hasTimestamp |-> TRUE, timestamp |-> day \o time]
ReadingNoTimestamp(bpm) ==
  [bpm |-> bpm, hasTimestamp |-> FALSE, timestamp |-> <<>>]

\* ------------------------------------------------------------------------
\* computeHeartRateDailyStats (server/oura.ts)
\* ------------------------------------------------------------------------

\* Math.round of the quotient sum / n of naturals, n > 0.
RoundDiv(sum, n) == (2 * sum + n) \div (2 * n)

\* dailyStats is an object: its keys in insertion order, each with its stats.
RECURSIVE ComputeHeartRateDailyStats(_)
ComputeHeartRateDailyStats(readings) ==
  IF readings = <<>> THEN <<>>
  ELSE
    LET before == ComputeHeartRateDailyStats(SubSeq(readings, 1, Len(readings) - 1))
        reading == readings[Len(readings)]
        day == SplitT0(reading.timestamp)
        Grown(st) ==
          LET rs == Append(st.readings, reading)
              sum == LET RECURSIVE Sum(_)
                         Sum(q) == IF q = <<>> THEN 0 ELSE Head(q).bpm + Sum(Tail(q))
                     IN  Sum(rs)
          IN  [day |-> st.day, readings |-> rs,
               min |-> IF reading.bpm < st.min THEN reading.bpm ELSE st.min,
               max |-> IF reading.bpm > st.max THEN reading.bpm ELSE st.max,
               avg |-> RoundDiv(sum, Len(rs))]
    IN  IF ~reading.hasTimestamp \/ day = <<>> THEN before
        ELSE IF \E i \in 1..Len(before) : before[i].day = day
        THEN [i \in 1..Len(before) |->
                IF before[i].day = day THEN Grown(before[i]) ELSE before[i]]
        ELSE Append(before,
                    [day |-> day, readings |-> <<reading>>, min |-> reading.bpm,
                     max |-> reading.bpm, avg |-> reading.bpm])

HeartRateResult(readings) ==
  [readings |-> readings, dailyStats |-> ComputeHeartRateDailyStats(readings)]

NoHeartRate == [readings |-> <<>>, dailyStats |-> <<>>]

\* ------------------------------------------------------------------------
\* OuraCache (server/cache.ts)
\* ------------------------------------------------------------------------

\* private TTL = 60 * 60 * 1000
TTL == 60 * 60 * 1000

\* now - entry.timestamp > this.TTL
IsExpiredAtTTL(at, timestamp) == at - timestamp >= TTL
IsExpired(at, timestamp) == at - timestamp > TTL

SessionIds == {"s1", "s2"}

\* The largest number of clock advances the model takes.
MaxTicks == 2

\* By how many ms the clock advances in one step.
ClockSteps == {1, TTL}

NullEntry ==
  [startDate |-> <<>>, endDate |-> <<>>,
   data |-> [sleep |-> <<>>, activity |-> <<>>, readiness |-> <<>>,
             heartRate |-> NoHeartRate],
   includedTypes |-> [sleep |-> FALSE, activity |-> FALSE, readiness |-> FALSE,
                      heartRate |-> FALSE],
   timestamp |-> -1]

Stamped(entry, at) == [entry EXCEPT !.timestamp = at]

\* get(sessionId): whether an entry is returned, and the map afterwards
CacheGetFound(sessionId) ==
  /\ MapHas(cache, sessionId)
  /\ ~IsExpired(now, MapGet(cache, sessionId).timestamp)

\* A get that restamps the entry it returns.
CacheAfterGetTouching(sessionId) ==
  IF ~MapHas(cache, sessionId) THEN cache
  ELSE IF IsExpired(now, MapGet(cache, sessionId).timestamp)
  THEN MapDelete(cache, sessionId)
  ELSE MapSet(cache, sessionId, Stamped(MapGet(cache, sessionId), now))

CacheAfterGet(sessionId) ==
  IF MapHas(cache, sessionId) /\ IsExpired(now, MapGet(cache, sessionId).timestamp)
  THEN MapDelete(cache, sessionId)
  ELSE cache

CacheGet(sessionId) ==
  /\ cache' = CacheAfterGet(sessionId)
  /\ ret' = [op |-> "get", sessionId |-> sessionId,
             found |-> CacheGetFound(sessionId),
             entry |-> IF CacheGetFound(sessionId) THEN MapGet(cache, sessionId)
                       ELSE NullEntry]
  /\ UNCHANGED <<now, ticks>>

\* set(sessionId, entry): entry comes without a timestamp
CacheSet(sessionId, entry) ==
  /\ cache' = MapSet(cache, sessionId, Stamped(entry, now))
  /\ ret' = [op |-> "set", sessionId |-> sessionId, found |-> FALSE,
             entry |-> entry]
  /\ UNCHANGED <<now, ticks>>

\* clear(sessionId)
CacheClear(sessionId) ==
  /\ cache' = MapDelete(cache, sessionId)
  /\ ret' = [op |-> "clear", sessionId |-> sessionId, found |-> FALSE,
             entry |-> NullEntry]
  /\ UNCHANGED <<now, ticks>>

\* The sweep that also drops the entries aged TTL exactly.
SweptFromTTL(map, at) ==
  SelectSeq(map, LAMBDA kv : ~IsExpiredAtTTL(at, kv.entry.timestamp))

\* What cleanup() leaves of the map when it runs at time `at`.
Swept(map, at) ==
  SelectSeq(map, LAMBDA kv : ~IsExpired(at, kv.entry.timestamp))

\* cleanup(), run by the interval timer
CacheCleanup ==
  /\ cache' = Swept(cache, now)
  /\ ret' = [op |-> "cleanup", sessionId |-> "", found |-> FALSE,
             entry |-> NullEntry]
  /\ UNCHANGED <<now, ticks>>

\* Time passes.
ClockAdvance ==
  /\ ticks < MaxTicks
  /\ \E d \in ClockSteps : now' = now + d
  /\ ticks' = ticks + 1
  /\ UNCHANGED cache

\* matches(entry, startDate, endDate, neededTypes)
Matches(entry, startDate, endDate, neededTypes) ==
  IF entry.startDate = <<>> \/ entry.endDate = <<>> THEN FALSE
  ELSE IF JsGt(entry.startDate, startDate) \/ JsLt(entry.endDate, endDate) THEN FALSE
  ELSE IF neededTypes.sleep /\ ~entry.includedTypes.sleep THEN FALSE
  ELSE IF neededTypes.activity /\ ~entry.includedTypes.activity THEN FALSE
  ELSE IF neededTypes.readiness /\ ~entry.includedTypes.readiness THEN FALSE
  ELSE IF neededTypes.heartRate /\ ~entry.includedTypes.heartRate THEN FALSE
  ELSE TRUE

\* day >= startDate && day <= endDate
InRangeOpenEnd(day, startDate, endDate) == JsGe(day, startDate) /\ JsLt(day, endDate)
InRange(day, startDate, endDate) == JsGe(day, startDate) /\ JsLe(day, endDate)

\* filterByDate: items.filter(item => item.day >= startDate && item.day <= endDate)
FilterByDate(items, startDate, endDate) ==
  SelectSeq(items, LAMBDA item : InRange(item.day, startDate, endDate))

\* filterHeartRate narrowing the readings and keeping every day's stats.
FilterHeartRateReadingsOnly(hrData, startDate, endDate) ==
  [readings |->
     SelectSeq(hrData.readings,
               LAMBDA reading :
                 /\ reading.hasTimestamp
                 /\ InRange(SplitT0(reading.timestamp), startDate, endDate)),
   dailyStats |-> hrData.dailyStats]

\* filterHeartRate: readings by the date part of the timestamp (a reading with
\* no timestamp has day undefined, and no comparison with undefined holds),
\* dailyStats by key
FilterHeartRate(hrData, startDate, endDate) ==
  [readings |->
     SelectSeq(hrData.readings,
               LAMBDA reading :
                 /\ reading.hasTimestamp
                 /\ InRange(SplitT0(reading.timestamp), startDate, endDate)),
   dailyStats |->
     SelectSeq(hrData.dailyStats,
               LAMBDA stats : InRange(stats.day, startDate, endDate))]

\* filterData(entry, startDate, endDate)
FilterData(entry, startDate, endDate) ==
  [sleep |-> FilterByDate(entry.data.sleep, startDate, endDate),
   activity |-> FilterByDate(entry.data.activity, startDate, endDate),
   readiness |-> FilterByDate(entry.data.readiness, startDate, endDate),
   heartRate |-> FilterHeartRate(entry.data.heartRate, startDate, endDate)]


\* ------------------------------------------------------------------------
\* Sample datasets and cache entries
\* ------------------------------------------------------------------------

\* The flags detectRelevantDataTypes can return: at least one is set.
TypeFlags ==
  {f \in [sleep : BOOLEAN, activity : BOOLEAN, readiness : BOOLEAN,
          heartRate : BOOLEAN] :
     f.sleep \/ f.activity \/ f.readiness \/ f.heartRate}

DefaultFlags ==
  [sleep |-> TRUE, activity |-> TRUE, readiness |-> TRUE, heartRate |-> FALSE]
AllFlags ==
  [sleep |-> TRUE, activity |-> TRUE, readiness |-> TRUE, heartRate |-> TRUE]
HeartFlags ==
  [sleep |-> FALSE, activity |-> FALSE, readiness |-> FALSE, heartRate |-> TRUE]

SampleReadings ==
  <<Reading(60, Day2, Morning), Reading(81, Day2, Evening), ReadingNoTimestamp(70),
    Reading(55, Day3, Morning), Reading(90, Day1, Evening),
    Reading(65, Day5, Morning), Reading(58, Day3, Evening)>>

DataFull ==
  [sleep |-> <<Item(11, Day1), Item(12, Day2), Item(13, Day3), Item(14, Day4),
               Item(15, Day5)>>,
   activity |-> <<Item(21, Day4), Item(22, Day2), Item(23, Day4)>>,
   readiness |-> <<Item(31, Day3)>>,
   heartRate |-> HeartRateResult(SampleReadings)]

DataSparse ==
  [sleep |-> <<>>,
   activity |-> <<Item(41, Day5), Item(42, Day1)>>,
   readiness |-> <<Item(51, Day2), Item(52, Day3)>>,
   heartRate |-> HeartRateResult(<<Reading(72, Day4, Morning)>>)]

DataEmpty ==
  [sleep |-> <<>>, activity |-> <<>>, readiness |-> <<>>, heartRate |-> NoHeartRate]

\* What set() is given: an entry without its timestamp.
Unstamped(startDate, endDate, data, includedTypes) ==
  [startDate |-> startDate, endDate |-> endDate, data |-> data,
   includedTypes |-> includedTypes, timestamp |-> -1]

\* The entries the cache operations are tried with.
CachePayloads ==
  {Unstamped(Day1, Day5, DataFull, AllFlags),
   Unstamped(Day2, Day3, DataSparse, DefaultFlags)}

\* The entries filterData is tried with.
FilterEntries ==
  {Stamped(Unstamped(Day1, Day5, DataFull, AllFlags), 0),
   Stamped(Unstamped(Day1, Day5, DataSparse, DefaultFlags), 0),
   Stamped(Unstamped(Day2, Day4, DataEmpty, HeartFlags), 0)}

\* The entries matches is tried with: every range of sample days, every flags.
MatchEntries ==
  {Stamped(Unstamped(SampleDays[i], SampleDays[j], DataEmpty, f), 0) :
     <<i, j, f>> \in {x \in (1..Len(SampleDays)) \X (1..Len(SampleDays)) \X TypeFlags :
                        x[1] <= x[2]}}

\* ------------------------------------------------------------------------
\* The query handler (server/routes/data.ts) and what it calls
\* ------------------------------------------------------------------------

\* The largest number of requests in flight at once.
MaxInFlight == 2
ReqIds == 1..MaxInFlight

\* The session the requests belong to.
QuerySessions == {"s1"}

\* The day the requests are made (as a string and as a Date), and the day
\* 7 * 24 hours before it.
Today == Day4
TodayDate == DayIndex(Today)
WeekAgo == FormatDate(TodayDate - 7)

\* extractDateRange's defaultRange
DefaultRange == DateRange(WeekAgo, Today, FALSE)

\* detectRelevantDataTypes(query)
SleepKeywords ==
  {Chars("sleep"), Chars("rest"), Chars("night"), Chars("bed"), Chars("rem"),
   Chars("deep"), Chars("awake")}
ActivityKeywords ==
  {Chars("activity"), Chars("step"), Chars("active"), Chars("exercise"),
   Chars("workout"), Chars("calories"), Chars("move")}
ReadinessKeywords ==
  {Chars("readiness"), Chars("recovery"), Chars("ready"), Chars("stress"),
   Chars("strain")}
HeartRateKeywords == {Chars("heart"), Chars("hr"), Chars("bpm"), Chars("pulse")}

\* The classifier whose default ignores the heart-rate keywords.
DetectIgnoringHeartRate(query) ==
  LET q == ToLowerCase(query)
      wantsSleep == \E k \in SleepKeywords : Includes(q, k)
      wantsActivity == \E k \in ActivityKeywords : Includes(q, k)
      wantsReadiness == \E k \in ReadinessKeywords : Includes(q, k)
      wantsHeartRate == \E k \in HeartRateKeywords : Includes(q, k)
      noSpecificType == ~wantsSleep /\ ~wantsActivity /\ ~wantsReadiness
  IN  [sleep |-> wantsSleep \/ noSpecificType,
       activity |-> wantsActivity \/ noSpecificType,
       readiness |-> wantsReadiness \/ noSpecificType,
       heartRate |-> wantsHeartRate]

\* The classifier with heart rate switched on by default as well.
DetectHeartRateByDefault(query) ==
  LET q == ToLowerCase(query)
      wantsSleep == \E k \in SleepKeywords : Includes(q, k)
      wantsActivity == \E k \in ActivityKeywords : Includes(q, k)
      wantsReadiness == \E k \in ReadinessKeywords : Includes(q, k)
      wantsHeartRate == \E k \in HeartRateKeywords : Includes(q, k)
      noSpecificType ==
        ~wantsSleep /\ ~wantsActivity /\ ~wantsReadiness /\ ~wantsHeartRate
  IN  [sleep |-> wantsSleep \/ noSpecificType,
       activity |-> wantsActivity \/ noSpecificType,
       readiness |-> wantsReadiness \/ noSpecificType,
       heartRate |-> wantsHeartRate \/ noSpecificType]

\* The classifier without its fallback: only the categories with a keyword.
DetectOnlyWanted(query) ==
  LET q == ToLowerCase(query)
  IN  [sleep |-> \E k \in SleepKeywords : Includes(q, k),
       activity |-> \E k \in ActivityKeywords : Includes(q, k),
       readiness |-> \E k \in ReadinessKeywords : Includes(q, k),
       heartRate |-> \E k \in HeartRateKeywords : Includes(q, k)]

DetectRelevantDataTypes(query) ==
  LET q == ToLowerCase(query)
      wantsSleep == \E k \in SleepKeywords : Includes(q, k)
      wantsActivity == \E k \in ActivityKeywords : Includes(q, k)
      wantsReadiness == \E k \in ReadinessKeywords : Includes(q, k)
      wantsHeartRate == \E k \in HeartRateKeywords : Includes(q, k)
      noSpecificType ==
        ~wantsSleep /\ ~wantsActivity /\ ~wantsReadiness /\ ~wantsHeartRate
  IN  [sleep |-> wantsSleep \/ noSpecificType,
       activity |-> wantsActivity \/ noSpecificType,
       readiness |-> wantsReadiness \/ noSpecificType,
       heartRate |-> wantsHeartRate]

\* The request body: its query field is a string, is missing, or is a number.
Body(query) == [kind |-> "string", query |-> query]
BodyWithoutQuery == [kind |-> "missing", query |-> <<>>]
BodyWithNumber == [kind |-> "number", query |-> <<>>]

\* ouraQuerySchema.safeParse(req.body).success.  The tree holds two copies of
\* the schema: shared/schema.ts asks for a string of at least 1 character,
\* the copy in utils/gemini.ts also for at most 500.
OuraQuerySchemas == {"min", "minmax"}
MaxQueryLength == 500
SafeParse(schema, body) ==
  /\ body.kind = "string"
  /\ Len(body.query) >= 1
  /\ schema = "minmax" => Len(body.query) <= MaxQueryLength

\* The queries of the requests: all four categories or heart rate only, over
\* the default range, the sample days and yesterday ...
ConcurrentQueries ==
  {Chars("Sleep, steps, stress and pulse?"),
   Chars("Sleep, steps, stress and pulse 2024-12-31 to 2025-01-10"),
   Chars("Sleep, steps, stress and pulse yesterday"),
   Chars("What is my heart rate?"),
   Chars("Heart rate from 2024-12-31 to 2025-01-10"),
   Chars("My pulse yesterday")}

\* ... and queries without a category keyword, about sleep only, with a date
\* reference that only the date-extraction model resolves, and of 500 and 501
\* characters.
LongQuery(n) == [i \in 1..n |-> "a"]
SampleQueries ==
  ConcurrentQueries
    \cup {Chars("How am I doing?"), Chars("How was my sleep last night?"),
          Chars("How was my sleep in the previous week?"),
          Chars("Sleep in the last 999999999 days"),
          LongQuery(MaxQueryLength), LongQuery(MaxQueryLength + 1)}

SampleBodies ==
  {Body(q) : q \in SampleQueries}
    \cup {Body(<<>>), BodyWithoutQuery, BodyWithNumber}

\* What the date-extraction model may reply.
AiReplies ==
  {AiFailure("throws"), AiFailure("noJson"), AiFailure("badJson"),
   AiFailure("missing"), AiDates(<<>>, Day4), AiDates(Day1, <<>>),
   AiDates(Day1, Day4), AiDates(Day5, Day3)}

\* extractDateRange and detectRelevantDataTypes on the sample queries, computed
\* once for each query
ExtractedDateRange ==
  [query \in SampleQueries |->
     [reply \in AiReplies |-> ExtractDateRange(query, TodayDate, reply)]]
DetectedDataTypes ==
  [query \in SampleQueries |-> DetectRelevantDataTypes(query)]

NoFlags ==
  [sleep |-> FALSE, activity |-> FALSE, readiness |-> FALSE, heartRate |-> FALSE]
NoFetch ==
  [fn |-> "none", startDate |-> <<>>, endDate |-> <<>>, include |-> NoFlags]

\* The vendor API: what the account holds, and what a read of the days
\* startDate..endDate returns of the categories asked for.
WorldData == DataFull

UpstreamSlice(items, startDate, endDate) ==
  SelectSeq(items,
            LAMBDA x :
              /\ "day" \in DOMAIN x \/ x.hasTimestamp
              /\ LET day == IF "day" \in DOMAIN x THEN x.day
                            ELSE SplitT0(x.timestamp)
                 IN  /\ DayIndex(startDate) <= DayIndex(day)
                     /\ DayIndex(day) <= DayIndex(endDate))

Upstream(startDate, endDate, include) ==
  [sleep |-> IF include.sleep
             THEN UpstreamSlice(WorldData.sleep, startDate, endDate) ELSE <<>>,
   activity |-> IF include.activity
                THEN UpstreamSlice(WorldData.activity, startDate, endDate) ELSE <<>>,
   readiness |-> IF include.readiness
                 THEN UpstreamSlice(WorldData.readiness, startDate, endDate)
                 ELSE <<>>,
   heartRate |-> IF include.heartRate
                 THEN HeartRateResult(
                        UpstreamSlice(WorldData.heartRate.readings, startDate, endDate))
                 ELSE NoHeartRate]

\* The calls getAllOuraDataByDateRange(req, startDate, endDate, {include...})
\* and getAllOuraData(req, 7)
FetchByDateRangeAllTypes(range, dataTypes) ==
  [fn |-> "getAllOuraDataByDateRange", startDate |-> range.startDate,
   endDate |-> range.endDate, include |-> AllFlags]

FetchByDateRange(range, dataTypes) ==
  [fn |-> "getAllOuraDataByDateRange", startDate |-> range.startDate,
   endDate |-> range.endDate, include |-> dataTypes]

FetchLastDays ==
  [fn |-> "getAllOuraData", startDate |-> WeekAgo, endDate |-> Today,
   include |-> AllFlags]

\* What the call can resolve to: the categories asked for, or nothing at all
\* (the request's session holds no usable token, or every read failed and
\* was caught).  The call never rejects.
FetchResults(fetch) ==
  {Upstream(fetch.startDate, fetch.endDate, fetch.include), DataEmpty}

\* Each category is read by a function of its own that catches what its read
\* throws and returns an empty result: the call resolves to the categories
\* asked for, less those whose read failed.
NoData(category) == IF category = "heartRate" THEN NoHeartRate ELSE <<>>
UpstreamAllOrNothing(fetch, failed) ==
  IF failed = {} THEN Upstream(fetch.startDate, fetch.endDate, fetch.include)
  ELSE DataEmpty
UpstreamExcept(fetch, failed) ==
  [category \in {"sleep", "activity", "readiness", "heartRate"} |->
     IF category \in failed THEN NoData(category)
     ELSE Upstream(fetch.startDate, fetch.endDate, fetch.include)[category]]
FetchOutcomes(fetch) ==
  {UpstreamExcept(fetch, failed) :
     failed \in SUBSET {"sleep", "activity", "readiness", "heartRate"}}

\* The events of the response stream and what they carry.
Categories == {"sleep", "activity", "readiness", "heartRate"}
NullPayload ==
  [isNull |-> TRUE, keys |-> {}, sleep |-> <<>>, activity |-> <<>>,
   readiness |-> <<>>, heartRate |-> <<>>]
NoText == [kind |-> "none", startDate |-> <<>>, endDate |-> <<>>]
ChunkText == [kind |-> "chunk", startDate |-> <<>>, endDate |-> <<>>]
ContentEvent(text) ==
  [type |-> "content", text |-> text, hasOuraData |-> FALSE,
   ouraData |-> NullPayload]
DoneEvent(relevantData) ==
  [type |-> "done", text |-> NoText, hasOuraData |-> TRUE,
   ouraData |-> relevantData]
DoneEventBare ==
  [type |-> "done", text |-> NoText, hasOuraData |-> FALSE,
   ouraData |-> NullPayload]
ErrorEvent ==
  [type |-> "error", text |-> NoText, hasOuraData |-> FALSE,
   ouraData |-> NullPayload]

\* noDataMsg
NoDataMsg(dateRange) ==
  IF dateRange.usesCustomRange
  THEN [kind |-> "noDataPeriod", startDate |-> dateRange.startDate,
        endDate |-> dateRange.endDate]
  ELSE [kind |-> "noDataRecent", startDate |-> <<>>, endDate |-> <<>>]

\* heartRateSummary: day, min, max and avg of each daily stat (avg 0 as null)
HeartRateSummaryWithReadings(dailyStats) == dailyStats
HeartRateSummary(dailyStats) ==
  [i \in 1..Len(dailyStats) |->
     [day |-> dailyStats[i].day, min |-> dailyStats[i].min,
      max |-> dailyStats[i].max,
      avg |-> IF dailyStats[i].avg = 0 THEN "null" ELSE dailyStats[i].avg]]

\* buildRelevantDataPayload(ouraData, dataTypes)
BuildRelevantDataPayload(ouraData, dataTypes) ==
  LET keys == {k \in Categories : dataTypes[k]}
  IN  IF keys = {} THEN NullPayload
      ELSE [isNull |-> FALSE, keys |-> keys,
            sleep |-> IF dataTypes.sleep THEN ouraData.sleep ELSE <<>>,
            activity |-> IF dataTypes.activity THEN ouraData.activity ELSE <<>>,
            readiness |-> IF dataTypes.readiness THEN ouraData.readiness ELSE <<>>,
            heartRate |-> IF dataTypes.heartRate
                          THEN HeartRateSummary(ouraData.heartRate.dailyStats)
                          ELSE <<>>]

\* dateRangeDescription and buildDataSections: what the prompt says of the
\* range, and the sections it holds
NoPrompt == [description |-> NoText, sections |-> NullPayload]
BuildPrompt(dateRange, ouraData, dataTypes) ==
  [description |->
     IF dateRange.usesCustomRange
     THEN [kind |-> "fromTo", startDate |-> dateRange.startDate,
           endDate |-> dateRange.endDate]
     ELSE [kind |-> "last7days", startDate |-> <<>>, endDate |-> <<>>],
   sections |->
     [BuildRelevantDataPayload(ouraData, dataTypes) EXCEPT !.isNull = FALSE]]

\* A request: where its handler stands, its locals, the calls it has made,
\* its response (status, JSON body or event stream), whether its caller has
\* closed the connection, and how many events were written after that.
IdleSlot ==
  [pc |-> "idle", sessionId |-> "", query |-> <<>>, resolved |-> NoRange,
   dateRange |-> NoRange, dataTypes |-> NoFlags, hit |-> FALSE,
   fetch |-> NoFetch, ouraData |-> DataEmpty, prompt |-> NoPrompt,
   chunks |-> 0, did |-> {}, headersSent |-> FALSE, status |-> 0,
   json |-> "", sse |-> <<>>, callerGone |-> FALSE, lateWrites |-> 0]

\* res.write(event), res.end(), res.status(code).json(body)
Write(req, event) ==
  [req EXCEPT !.sse = Append(@, event), !.headersSent = TRUE, !.status = 200,
              !.lateWrites = IF req.callerGone THEN @ + 1 ELSE @]
End(req) == [req EXCEPT !.pc = "closed"]
Json(req, status, body) ==
  [req EXCEPT !.pc = "closed", !.status = status, !.json = body,
              !.headersSent = TRUE]

\* the catch block
CatchAlwaysWrites(req) == End(Write(req, ErrorEvent))
Catch(req) ==
  IF req.headersSent THEN End(Write(req, ErrorEvent))
  ELSE Json(req, 500, "Failed to process query")

\* hasData
HasDataAlways(ouraData) == TRUE
HasData(ouraData) ==
  \/ Len(ouraData.sleep) > 0
  \/ Len(ouraData.activity) > 0
  \/ Len(ouraData.readiness) > 0
  \/ Len(ouraData.heartRate.readings) > 0

\* The handler from hasData to its next await: the no-data answer, or the
\* call of generateWithRetry.
AfterData(req, ouraData) ==
  IF HasData(ouraData)
  THEN [req EXCEPT !.pc = "generating", !.ouraData = ouraData,
                   !.prompt = BuildPrompt(req.dateRange, ouraData, req.dataTypes),
                   !.did = @ \cup {"generateWithRetry"}]
  ELSE End(Write(Write([req EXCEPT !.ouraData = ouraData],
                       ContentEvent(NoDataMsg(req.dateRange))),
                 DoneEventBare))

\* isConnected(req): the session holds an access token
IsConnectedAlways(sessionId) == TRUE
IsConnected(sessionId) == sessionId \in tokens

\* POST /api/oura/query up to the await of extractDateRange: validation,
\* isConnected, the SSE headers.  A new request takes the first free place.
QueryArrives(r, sessionId, body, schema) ==
  /\ slot[r].pc \in {"idle", "closed"}
  /\ \A q \in 1..(r - 1) : slot[q].pc \notin {"idle", "closed"}
  /\ LET req == [IdleSlot EXCEPT !.sessionId = sessionId, !.query = body.query]
     IN  slot' = [slot EXCEPT ![r] =
           IF ~SafeParse(schema, body) THEN Json(req, 400, "validation")
           ELSE IF ~IsConnected(sessionId) THEN Json(req, 401, "connect first")
           ELSE [req EXCEPT !.pc = "extracting",
                            !.did = {"extractDateRange"}]]
  /\ UNCHANGED <<tokens, cacheVars>>

\* The lookup without line 262: a follow-up keeps the default range.
AfterLookupKeepsDefault(req, range, found, cachedEntry) ==
  IF found /\ ~range.usesCustomRange THEN AfterData(req, cachedEntry.data)
  ELSE IF found /\ Matches(cachedEntry, range.startDate, range.endDate,
                           req.dataTypes)
  THEN AfterData(req, FilterData(cachedEntry, range.startDate, range.endDate))
  ELSE [req EXCEPT !.pc = "fetching", !.did = @ \cup {"fetch"},
                   !.fetch = IF range.usesCustomRange
                             THEN FetchByDateRange(range, req.dataTypes)
                             ELSE FetchLastDays]

\* The handler from the cache lookup to its next await: the cached data
\* (whole on a follow-up, filtered on a match), or the start of the fetch.
AfterLookup(req, range, found, cachedEntry) ==
  IF found /\ ~range.usesCustomRange
  THEN AfterData([req EXCEPT !.dateRange =
                    DateRange(cachedEntry.startDate, cachedEntry.endDate, TRUE)],
                 cachedEntry.data)
  ELSE IF found /\ Matches(cachedEntry, range.startDate, range.endDate,
                           req.dataTypes)
  THEN AfterData(req, FilterData(cachedEntry, range.startDate, range.endDate))
  ELSE [req EXCEPT !.pc = "fetching", !.did = @ \cup {"fetch"},
                   !.fetch = IF range.usesCustomRange
                             THEN FetchByDateRange(range, req.dataTypes)
                             ELSE FetchLastDays]

\* The handler after extractDateRange: the catch block if it threw, else the
\* classifier and the cache lookup.
AfterExtract(req, extracted, dataTypes, found, cachedEntry) ==
  IF extracted.kind = "throws" THEN Catch(req)
  ELSE AfterLookup([req EXCEPT !.resolved = extracted.range,
                               !.dateRange = extracted.range,
                               !.dataTypes = dataTypes, !.hit = found,
                               !.did = @ \cup {"queryCache.get"}],
                   extracted.range, found, cachedEntry)

\* extractDateRange has settled.
DateRangeResolved(r, reply) ==
  /\ slot[r].pc = "extracting"
  /\ slot' = [slot EXCEPT ![r] =
       AfterExtract(slot[r], ExtractedDateRange[slot[r].query][reply],
                    DetectedDataTypes[slot[r].query],
                    CacheGetFound(slot[r].sessionId),
                    IF CacheGetFound(slot[r].sessionId)
                    THEN MapGet(cache, slot[r].sessionId) ELSE NullEntry)]
  /\ cache' = IF ExtractedDateRange[slot[r].query][reply].kind = "throws"
              THEN cache ELSE CacheAfterGet(slot[r].sessionId)
  /\ UNCHANGED <<tokens, now, ticks, ret>>

\* The entry with the new data under the range of the entry it replaces.
EntryKeepingRange(req, data) ==
  IF MapHas(cache, req.sessionId)
  THEN Unstamped(MapGet(cache, req.sessionId).startDate,
                 MapGet(cache, req.sessionId).endDate, data, req.dataTypes)
  ELSE Unstamped(req.dateRange.startDate, req.dateRange.endDate, data,
                 req.dataTypes)

\* What the handler gives to queryCache.set: its own range, data and types.
EntryToStore(req, data) ==
  Unstamped(req.dateRange.startDate, req.dateRange.endDate, data,
            req.dataTypes)

\* The fetch has resolved: the result is stored in the cache and the handler
\* goes on.
FetchCompleted(r, data) ==
  /\ slot[r].pc = "fetching"
  /\ cache' = MapSet(cache, slot[r].sessionId,
                     Stamped(EntryToStore(slot[r], data), now))
  /\ slot' = [slot EXCEPT ![r] =
                AfterData([slot[r] EXCEPT !.did = @ \cup {"queryCache.set"}], data)]
  /\ UNCHANGED <<tokens, now, ticks, ret>>

\* generateWithRetry returns a stream, or throws.
GenerationResolves(r) ==
  /\ slot[r].pc = "generating"
  /\ slot' = [slot EXCEPT ![r].pc = "streaming"]
  /\ UNCHANGED <<tokens, cacheVars>>

GenerationRejects(r) ==
  /\ slot[r].pc = "generating"
  /\ slot' = [slot EXCEPT ![r] = Catch(slot[r])]
  /\ UNCHANGED <<tokens, cacheVars>>

\* The stream yields a chunk (written if its text is not empty), ends, or
\* throws.  A stream yields at most MaxChunks chunks.
MaxChunks == 2

ChunkArrives(r, hasText) ==
  /\ slot[r].pc = "streaming"
  /\ slot[r].chunks < MaxChunks
  /\ slot' = [slot EXCEPT ![r] =
                LET req == [slot[r] EXCEPT !.chunks = @ + 1]
                IN  IF hasText THEN Write(req, ContentEvent(ChunkText)) ELSE req]
  /\ UNCHANGED <<tokens, cacheVars>>

StreamEnds(r) ==
  /\ slot[r].pc = "streaming"
  /\ slot' = [slot EXCEPT ![r] =
                End(Write(slot[r],
                          DoneEvent(BuildRelevantDataPayload(slot[r].ouraData,
                                                             slot[r].dataTypes))))]
  /\ UNCHANGED <<tokens, cacheVars>>

StreamFails(r) ==
  /\ slot[r].pc = "streaming"
  /\ slot' = [slot EXCEPT ![r] = Catch(slot[r])]
  /\ UNCHANGED <<tokens, cacheVars>>

\* The caller closes the connection while the stream is relayed.  The handler
\* registers no listener for it and tests nothing before it writes.
CallerDisconnects(r) ==
  /\ slot[r].pc = "streaming"
  /\ ~slot[r].callerGone
  /\ slot' = [slot EXCEPT ![r].callerGone = TRUE]
  /\ UNCHANGED <<tokens, cacheVars>>

\* POST /api/auth/oura/disconnect, and a completed OAuth callback
Disconnect(sessionId) ==
  /\ sessionId \in tokens
  /\ tokens' = tokens \ {sessionId}
  /\ UNCHANGED <<slot, cacheVars>>

Connect(sessionId) ==
  /\ sessionId \notin tokens
  /\ tokens' = tokens \cup {sessionId}
  /\ UNCHANGED <<slot, cacheVars>>

\* ------------------------------------------------------------------------
\* Specifications
\* ------------------------------------------------------------------------

NoRet == [op |-> "none", sessionId |-> "", found |-> FALSE, entry |-> NullEntry]
NoFn == [fn |-> "none"]

GenOff ==
  /\ maxRetries = DefaultMaxRetries
  /\ modelIx = 0
  /\ attempt = 0
  /\ lastError = NoError
  /\ genPc = "off"
  /\ genResult = [kind |-> "none", model |-> 0, error |-> NoError]
  /\ events = <<>>

\* The cache as constructed.
CacheStart ==
  /\ cache = <<>>
  /\ now = 0
  /\ ticks = 0
  /\ ret = NoRet

FnOff == fnIn = NoFn /\ fnOut = NoFn

\* A session without OAuth data, no read in progress, no call made.
NoToken == [kind |-> "none", n |-> 0]
Undefined == [defined |-> FALSE, value |-> ""]
NoSession ==
  [ouraAccessToken |-> NoToken, ouraRefreshToken |-> NoToken,
   ouraTokenExpiry |-> 0, oauthState |-> Undefined]
FetcherOff == [pc |-> "off", call |-> 0, token |-> NoToken, got |-> FALSE]
CallbackOff ==
  [pc |-> "off", code |-> "", state |-> Undefined, call |-> 0,
   redirect |-> "", issued |-> {}, entryPredatesDisconnect |-> FALSE]
AuthOff ==
  /\ session = [sessionId \in SessionIds |-> NoSession]
  /\ fetcher = [category \in Categories |-> FetcherOff]
  /\ endpoint = <<>>
  /\ callback = [sessionId \in SessionIds |-> CallbackOff]

QueryOff == tokens = {} /\ slot = [r \in ReqIds |-> IdleSlot]

\* generateWithRetry, for every maxRetries up to the bound
GenInit ==
  /\ \E mr \in 1..MaxRetriesBound : GenStart(mr)
  /\ CacheStart
  /\ AuthOff
  /\ QueryOff
  /\ FnOff

GenNext ==
  \/ GenCallSucceeds /\ UNCHANGED <<cacheVars, queryVars, fnVars, authVars>>
  \/ GenCallFails /\ UNCHANGED <<cacheVars, queryVars, fnVars, authVars>>
  \/ GenBackoffElapsed /\ UNCHANGED <<cacheVars, queryVars, fnVars, authVars>>

GenSpec == GenInit /\ [][GenNext]_vars

\* The cache under every sequence of its operations, the sweep and the clock
CacheInit == GenOff /\ CacheStart /\ QueryOff /\ FnOff /\ AuthOff

CacheNext ==
  \/ \E sessionId \in SessionIds :
       CacheGet(sessionId) /\ UNCHANGED <<genVars, queryVars, fnVars, authVars>>
  \/ \E sessionId \in SessionIds, entry \in CachePayloads :
       CacheSet(sessionId, entry) /\ UNCHANGED <<genVars, queryVars, fnVars, authVars>>
  \/ \E sessionId \in SessionIds :
       CacheClear(sessionId) /\ UNCHANGED <<genVars, queryVars, fnVars, authVars>>
  \/ CacheCleanup /\ UNCHANGED <<genVars, queryVars, fnVars, authVars>>
  \/ /\ ClockAdvance
     /\ ret' = [op |-> "tick", sessionId |-> "", found |-> FALSE,
                entry |-> NullEntry]
     /\ UNCHANGED <<genVars, queryVars, fnVars, authVars>>

CacheSpec == CacheInit /\ [][CacheNext]_vars

\* matches applied to every sample entry, range and needed flags
MatchesInit ==
  /\ GenOff
  /\ CacheStart
  /\ AuthOff
  /\ QueryOff
  /\ fnOut = NoFn
  /\ \E entry \in MatchEntries, startDate \in Days, endDate \in Days,
        neededTypes \in TypeFlags :
       fnIn = [fn |-> "matches", entry |-> entry, startDate |-> startDate,
               endDate |-> endDate, neededTypes |-> neededTypes]

ApplyMatches ==
  /\ fnIn.fn = "matches"
  /\ fnOut = NoFn
  /\ fnOut' = [fn |-> "matches",
               result |-> Matches(fnIn.entry, fnIn.startDate, fnIn.endDate,
                                  fnIn.neededTypes)]
  /\ UNCHANGED <<genVars, cacheVars, queryVars, fnIn, authVars>>

MatchesSpec == MatchesInit /\ [][ApplyMatches]_vars

\* filterData applied to every sample entry and range
FilterInit ==
  /\ GenOff
  /\ CacheStart
  /\ AuthOff
  /\ QueryOff
  /\ fnOut = NoFn
  /\ \E entry \in FilterEntries, startDate \in Days, endDate \in Days :
       fnIn = [fn |-> "filterData", entry |-> entry, startDate |-> startDate,
               endDate |-> endDate]

ApplyFilterData ==
  /\ fnIn.fn = "filterData"
  /\ fnOut = NoFn
  /\ fnOut' = [fn |-> "filterData",
               result |-> FilterData(fnIn.entry, fnIn.startDate, fnIn.endDate)]
  /\ UNCHANGED <<genVars, cacheVars, queryVars, fnIn, authVars>>

FilterSpec == FilterInit /\ [][ApplyFilterData]_vars

\* The query handler: concurrent requests of a connected session, and the
\* clock.  The queries are short and carry their dates in a form the parser
\* reads, so neither the copy of the schema nor the model's reply matters.
QueryInit ==
  /\ GenOff
  /\ CacheStart
  /\ AuthOff
  /\ FnOff
  /\ tokens = QuerySessions
  /\ slot = [r \in ReqIds |-> IdleSlot]

QueryNext ==
  \/ \E r \in ReqIds, sessionId \in QuerySessions,
        body \in {Body(q) : q \in ConcurrentQueries},
        schema \in {"min"} :
       QueryArrives(r, sessionId, body, schema) /\ UNCHANGED <<genVars, fnVars, authVars>>
  \/ \E r \in ReqIds, reply \in {AiFailure("throws")} :
       DateRangeResolved(r, reply) /\ UNCHANGED <<genVars, fnVars, authVars>>
  \/ \E r \in ReqIds :
       \E data \in FetchResults(slot[r].fetch) :
         FetchCompleted(r, data) /\ UNCHANGED <<genVars, fnVars, authVars>>
  \/ \E r \in ReqIds : GenerationResolves(r) /\ UNCHANGED <<genVars, fnVars, authVars>>
  \/ \E r \in ReqIds : StreamEnds(r) /\ UNCHANGED <<genVars, fnVars, authVars>>
  \/ ClockAdvance /\ UNCHANGED <<ret, genVars, queryVars, fnVars, authVars>>

QuerySpec == QueryInit /\ [][QueryNext]_vars

\* The query handler, one request at a time, with every outcome of the date
\* extraction, the fetch and the generation
HandlerInit == QueryInit

HandlerNext ==
  \/ \E r \in ReqIds, sessionId \in QuerySessions, body \in SampleBodies,
        schema \in OuraQuerySchemas :
       /\ \A q \in ReqIds : slot[q].pc \in {"idle", "closed"}
       /\ QueryArrives(r, sessionId, body, schema)
       /\ UNCHANGED <<genVars, fnVars, authVars>>
  \/ \E r \in ReqIds, reply \in AiReplies :
       DateRangeResolved(r, reply) /\ UNCHANGED <<genVars, fnVars, authVars>>
  \/ \E r \in ReqIds :
       \E data \in FetchResults(slot[r].fetch) :
         FetchCompleted(r, data) /\ UNCHANGED <<genVars, fnVars, authVars>>
  \/ \E r \in ReqIds : GenerationResolves(r) /\ UNCHANGED <<genVars, fnVars, authVars>>
  \/ \E r \in ReqIds : GenerationRejects(r) /\ UNCHANGED <<genVars, fnVars, authVars>>
  \/ \E r \in ReqIds, hasText \in BOOLEAN :
       ChunkArrives(r, hasText) /\ UNCHANGED <<genVars, fnVars, authVars>>
  \/ \E r \in ReqIds : StreamEnds(r) /\ UNCHANGED <<genVars, fnVars, authVars>>
  \/ \E r \in ReqIds : StreamFails(r) /\ UNCHANGED <<genVars, fnVars, authVars>>
  \/ \E sessionId \in QuerySessions :
       Disconnect(sessionId) /\ UNCHANGED <<genVars, fnVars, authVars>>
  \/ \E sessionId \in QuerySessions :
       Connect(sessionId) /\ UNCHANGED <<genVars, fnVars, authVars>>
  \/ ClockAdvance /\ UNCHANGED <<ret, genVars, queryVars, fnVars, authVars>>

HandlerSpec == HandlerInit /\ [][HandlerNext]_vars

\* detectRelevantDataTypes applied to queries put together from fragments:
\* every keyword (some in upper case), parts of keywords, and other words
ClassifyFragments ==
  {Chars("How am I doing?"), Chars("sleep"), Chars("REST"), Chars("Night"),
   Chars("bed"), Chars("rem"), Chars("deep"), Chars("awake"),
   Chars("activity"), Chars("Steps"), Chars("active"), Chars("exercise"),
   Chars("workout"), Chars("calories"), Chars("move"), Chars("readiness"),
   Chars("recovery"), Chars("ready"), Chars("stress"), Chars("strain"),
   Chars("heart"), Chars("HR"), Chars("bpm"), Chars("Pulse"), Chars("three"),
   Chars("hea"), Chars("rt"), Chars("h"), Chars("R"), Chars("bp"), Chars("m"),
   Chars("puls"), Chars("e"), Chars("light"), Chars("trend")}
RestingHeartRate == Chars("What's my resting heart rate?")
ClassifyQueries ==
  ClassifyFragments
    \cup {a \o b : a \in ClassifyFragments, b \in ClassifyFragments}
    \cup {a \o <<" ">> \o b : a \in ClassifyFragments, b \in ClassifyFragments}
    \cup {RestingHeartRate}

ClassifyInit ==
  /\ GenOff
  /\ CacheStart
  /\ AuthOff
  /\ QueryOff
  /\ fnOut = NoFn
  /\ \E query \in ClassifyQueries :
       fnIn = [fn |-> "detectRelevantDataTypes", query |-> query]

ApplyDetectRelevantDataTypes ==
  /\ fnIn.fn = "detectRelevantDataTypes"
  /\ fnOut = NoFn
  /\ fnOut' = [fn |-> "detectRelevantDataTypes",
               result |-> DetectRelevantDataTypes(fnIn.query)]
  /\ UNCHANGED <<genVars, cacheVars, queryVars, fnIn, authVars>>

ClassifySpec == ClassifyInit /\ [][ApplyDetectRelevantDataTypes]_vars

\* ------------------------------------------------------------------------
\* Properties of generateWithRetry (C1..C5), checked under GenSpec
\* ------------------------------------------------------------------------

\* A call that ended in a rate-limit-class error, told by the message the
\* call was made to throw.
RateLimited(e) ==
  /\ e.kind = "call"
  /\ ~e.ok
  /\ e.error.hasMessage
  /\ e.error.message \in RateLimitMessages

AllCallsRateLimited == \A i \in 1..Len(Calls) : RateLimited(Calls[i])

CallsOn(m) == {j \in 1..Len(Calls) : Calls[j].model = m}

\* The case of C1: default maxRetries, two rate-limit failures, then success.
C1_Case ==
  /\ maxRetries = DefaultMaxRetries
  /\ genPc = "returned"
  /\ Len(Calls) = 3
  /\ RateLimited(Calls[1])
  /\ RateLimited(Calls[2])
  /\ Calls[3].ok

\* C1 as stated: with maxRetries = 2, after two rate-limit failures and a
\* success on the third call, exactly 2 backoff delays were taken and the
\* returned stream comes from the primary model.
C1_Original ==
  C1_Case => (Len(Delays) = 2 /\ genResult.model = 1)

\* C1 as amended: with maxRetries = 2, after two rate-limit failures and a
\* success on the third call, exactly 1 backoff delay was taken (between the
\* two attempts on the primary model, which happen before falling back) and
\* the returned stream comes from the fallback model.
C1_Amended ==
  C1_Case =>
    /\ Len(Delays) = 1
    /\ Calls[1].model = 1 /\ Calls[2].model = 1 /\ Calls[3].model = 2
    /\ events[2].kind = "delay"
    /\ genResult.kind = "stream" /\ genResult.model = 2

C1_Witness == C1_Case

\* C2: a call that fails with an error that is not rate-limit-class is the
\* last thing generateWithRetry does: that same error is thrown, with no
\* backoff delay and no further call on this or a later model after it.
C2_NonRateLimitPropagates ==
  \A i \in 1..Len(events) :
    (events[i].kind = "call" /\ ~events[i].ok /\ ~RateLimited(events[i])) =>
      /\ i = Len(events)
      /\ genPc = "thrown"
      /\ genResult = [kind |-> "error", model |-> 0, error |-> events[i].error]

C2_Witness ==
  /\ genPc = "thrown"
  /\ Len(Calls) >= 2
  /\ ~RateLimited(events[Len(events)])
  /\ modelIx = 1
  /\ attempt < maxRetries - 1

\* C3: models are called in list order; a later model is called only after
\* the preceding one received exactly maxRetries calls, all ending in a
\* rate-limit error; an earlier model is never called again; no model
\* receives more than maxRetries calls.
C3_ModelOrderAndBudget ==
  /\ Len(Calls) > 0 => (Calls[1].model = 1 /\ Calls[1].attempt = 0)
  /\ \A i \in 1..(Len(Calls) - 1) :
       \/ Calls[i + 1].model = Calls[i].model
       \/ /\ Calls[i + 1].model = Calls[i].model + 1
          /\ Cardinality(CallsOn(Calls[i].model)) = maxRetries
          /\ \A j \in CallsOn(Calls[i].model) : RateLimited(Calls[j])
  /\ \A m \in 1..Len(MODELS) : Cardinality(CallsOn(m)) <= maxRetries

C3_Witness ==
  /\ maxRetries >= 2
  /\ genPc = "returned"
  /\ genResult.model = 2
  /\ Calls[Len(Calls)].attempt = 1

\* C4: when every call fails with a rate-limit error, generateWithRetry
\* throws after exactly |MODELS| * maxRetries calls and
\* |MODELS| * (maxRetries - 1) backoff delays, not earlier, and the error
\* thrown is the error of the last call made.
C4_ExhaustionThrowsLastError ==
  AllCallsRateLimited =>
    /\ Len(Calls) <= Len(MODELS) * maxRetries
    /\ Len(Calls) = Len(MODELS) * maxRetries => genPc = "thrown"
    /\ genPc = "thrown" =>
         /\ Len(Calls) = Len(MODELS) * maxRetries
         /\ Len(Delays) = Len(MODELS) * (maxRetries - 1)
         /\ Calls[Len(Calls)].model = Len(MODELS)
         /\ genResult.kind = "error"
         /\ genResult.error = Calls[Len(Calls)].error

C4_Witness ==
  /\ AllCallsRateLimited
  /\ genPc = "thrown"
  /\ maxRetries >= 2

\* C5: every backoff delay directly follows a rate-limited attempt on a
\* model and is directly followed by the next attempt on the same model,
\* and after 0-based attempt a it lasts 2^a * 1000 ms plus a jitter in
\* [0, 1000) ms.
C5_BackoffPlacementAndSize ==
  \A i \in 1..Len(events) :
    events[i].kind = "delay" =>
      /\ i > 1
      /\ RateLimited(events[i - 1])
      /\ events[i - 1].model = events[i].model
      /\ events[i - 1].attempt = events[i].attempt
      /\ i < Len(events) =>
           /\ events[i + 1].kind = "call"
           /\ events[i + 1].model = events[i].model
           /\ events[i + 1].attempt = events[i].attempt + 1
      /\ i = Len(events) =>
           /\ genPc \in {"delay", "call"}
           /\ modelIx = events[i].model
           /\ attempt = events[i].attempt + (IF genPc = "call" THEN 1 ELSE 0)
           /\ attempt < maxRetries
      /\ events[i].delay - Pow2(events[i].attempt) * 1000 \in 0..999

C5_Witness ==
  \E i \in 2..(Len(events) - 1) :
    /\ events[i].kind = "delay"
    /\ events[i].attempt = 1
    /\ events[i].model = 2
    /\ events[i].delay >= 2000

\* ------------------------------------------------------------------------
\* Properties of OuraCache (C6..C9)
\* ------------------------------------------------------------------------

UniqueKeys(map) ==
  \A i, j \in 1..Len(map) : map[i].key = map[j].key => i = j

\* C6 (CacheSpec): get(sessionId) returns the stored entry exactly when one
\* is stored and now - timestamp <= TTL (age TTL itself is still returned);
\* an older entry is removed by the get and absent is returned; once absent,
\* the session has an entry again only by a set for it.
C6_GetHonoursTTL ==
  [][/\ ret'.op = "get" =>
          LET s == ret'.sessionId
          IN  /\ ret'.found <=>
                   (MapHas(cache, s) /\ now - MapGet(cache, s).timestamp <= TTL)
              /\ ret'.found => (ret'.entry = MapGet(cache, s) /\ cache' = cache)
              /\ ~ret'.found => ~MapHas(cache', s)
     /\ \A s \in SessionIds :
          (~MapHas(cache, s) /\ MapHas(cache', s)) =>
             (ret'.op = "set" /\ ret'.sessionId = s)
    ]_vars

C6_Witness ==
  /\ ret.op = "get"
  /\ ret.found
  /\ now - ret.entry.timestamp = TTL
  /\ MapHas(cache, ret.sessionId)

\* C7 (CacheSpec): the cache never holds two entries for one session id;
\* set(sessionId, data) leaves that session's entry equal to data stamped
\* with the current time, whatever was stored before, and leaves every
\* other session's entry as it was.
C7_OneEntryLastWriteWins ==
  /\ UniqueKeys(cache)
  /\ [][/\ UniqueKeys(cache')
        /\ ret'.op = "set" =>
             LET s == ret'.sessionId
             IN  /\ MapHas(cache', s)
                 /\ MapGet(cache', s) = [ret'.entry EXCEPT !.timestamp = now]
                 /\ \A o \in SessionIds \ {s} :
                      /\ MapHas(cache', o) <=> MapHas(cache, o)
                      /\ MapHas(cache, o) => MapGet(cache', o) = MapGet(cache, o)
       ]_vars

\* A set that replaced an older entry of a session while another session,
\* inserted after it, holds an entry.
C7_Witness ==
  /\ ret.op = "set"
  /\ Len(cache) = 2
  /\ cache[1].key = ret.sessionId
  /\ cache[1].entry.timestamp > cache[2].entry.timestamp
  /\ cache[1].entry.data # cache[2].entry.data

NeededAreIncluded(needed, included) ==
  /\ needed.sleep => included.sleep
  /\ needed.activity => included.activity
  /\ needed.readiness => included.readiness
  /\ needed.heartRate => included.heartRate

\* C8 (MatchesSpec): matches(entry, start, end, needed) is true exactly when
\* the entry's range contains [start, end] and every needed type is among
\* the entry's included types.
C8_MatchesIffCovers ==
  fnOut.fn = "matches" =>
    (fnOut.result <=>
       /\ DayIndex(fnIn.entry.startDate) <= DayIndex(fnIn.startDate)
       /\ DayIndex(fnIn.entry.endDate) >= DayIndex(fnIn.endDate)
       /\ NeededAreIncluded(fnIn.neededTypes, fnIn.entry.includedTypes))

\* A proper sub-range with a proper subset of the types, sharing the start.
C8_Witness ==
  /\ fnOut.fn = "matches"
  /\ fnOut.result
  /\ fnIn.entry.startDate = Day3 /\ fnIn.entry.endDate = Day5
  /\ fnIn.startDate = Day3 /\ fnIn.endDate = Day4
  /\ fnIn.entry.includedTypes = AllFlags
  /\ fnIn.neededTypes = HeartFlags

RECURSIVE IsSubsequence(_, _)
IsSubsequence(a, b) ==
  IF a = <<>> THEN TRUE
  ELSE IF b = <<>> THEN FALSE
  ELSE IF Head(a) = Head(b) THEN IsSubsequence(Tail(a), Tail(b))
  ELSE IsSubsequence(a, Tail(b))

\* The calendar day of an item, of a daily stat, of a reading (the first ten
\* characters of its timestamp); a reading without timestamp has none.
HasDay(x) == "day" \in DOMAIN x \/ x.hasTimestamp
DayOf(x) == IF "day" \in DOMAIN x THEN x.day ELSE SubSeq(x.timestamp, 1, 10)

DayWithin(x, startDate, endDate) ==
  /\ HasDay(x)
  /\ DayIndex(startDate) <= DayIndex(DayOf(x))
  /\ DayIndex(DayOf(x)) <= DayIndex(endDate)

\* kept is exactly the elements of all whose day lies in the range, in order.
KeptExactly(kept, all, startDate, endDate) ==
  /\ IsSubsequence(kept, all)
  /\ \A i \in 1..Len(kept) : DayWithin(kept[i], startDate, endDate)
  /\ Len(kept) =
       Cardinality({i \in 1..Len(all) : DayWithin(all[i], startDate, endDate)})

C9_ResultIsTheRange ==
  fnOut.fn = "filterData" =>
    LET data == fnIn.entry.data
        out == fnOut.result
        s == fnIn.startDate
        e == fnIn.endDate
    IN  /\ KeptExactly(out.sleep, data.sleep, s, e)
        /\ KeptExactly(out.activity, data.activity, s, e)
        /\ KeptExactly(out.readiness, data.readiness, s, e)
        /\ KeptExactly(out.heartRate.readings, data.heartRate.readings, s, e)
        /\ KeptExactly(out.heartRate.dailyStats, data.heartRate.dailyStats, s, e)

\* C9 (FilterSpec): filterData(entry, s, e) returns, per category, exactly
\* the cached items whose day lies in [s, e], both ends included, in their
\* cached order (items by day, readings by the date part of the timestamp,
\* dailyStats by key), and the entry it was given is left as it was.
C9_FilterDataExact ==
  /\ [](C9_ResultIsTheRange /\ fnIn.entry \in FilterEntries)
  /\ [][fnIn'.entry = fnIn.entry]_vars

\* Items on both end days are kept, others dropped, in every category.
C9_Witness ==
  /\ fnOut.fn = "filterData"
  /\ fnIn.entry.data = DataFull
  /\ fnIn.startDate = Day2 /\ fnIn.endDate = Day4
  /\ Len(fnOut.result.sleep) = 3
  /\ fnOut.result.sleep[1].day = Day2 /\ fnOut.result.sleep[3].day = Day4
  /\ Len(fnOut.result.activity) = 3
  /\ Len(fnOut.result.heartRate.readings) = 4
  /\ Len(fnOut.result.heartRate.dailyStats) = 2

\* ------------------------------------------------------------------------
\* Properties of the query handler, checked under QuerySpec
\* ------------------------------------------------------------------------

\* The handler of request r has taken its step from the cache lookup, or from
\* the end of its fetch.
LookupStep(r) == slot[r].pc = "extracting" /\ slot'[r].pc # "extracting"
FetchStep(r) == slot[r].pc = "fetching" /\ slot'[r].pc # "fetching"

\* The session has an entry that has not expired.
LiveEntry(sessionId) ==
  /\ MapHas(cache, sessionId)
  /\ now - MapGet(cache, sessionId).timestamp <= TTL

\* The entry's range contains the range and its types contain the types.
Covers(entry, range, dataTypes) ==
  /\ DayIndex(entry.startDate) <= DayIndex(range.startDate)
  /\ DayIndex(range.endDate) <= DayIndex(entry.endDate)
  /\ NeededAreIncluded(dataTypes, entry.includedTypes)

ServedFromEntry(req, entry) ==
  LET s == req.resolved.startDate
      e == req.resolved.endDate
  IN  /\ req.pc \in {"generating", "closed"}
      /\ req.fetch = NoFetch
      /\ KeptExactly(req.ouraData.sleep, entry.data.sleep, s, e)
      /\ KeptExactly(req.ouraData.activity, entry.data.activity, s, e)
      /\ KeptExactly(req.ouraData.readiness, entry.data.readiness, s, e)
      /\ KeptExactly(req.ouraData.heartRate.readings,
                     entry.data.heartRate.readings, s, e)
      /\ KeptExactly(req.ouraData.heartRate.dailyStats,
                     entry.data.heartRate.dailyStats, s, e)

FetchesRequested(req) ==
  /\ req.pc = "fetching"
  /\ req.fetch = [fn |-> "getAllOuraDataByDateRange",
                  startDate |-> req.resolved.startDate,
                  endDate |-> req.resolved.endDate,
                  include |-> req.dataTypes]

\* C10 (QuerySpec): a request that resolves to a custom range while its
\* session has a non-expired entry is answered from the cache (the entry's
\* data cut to the requested range, no fetch, the cache left as it is) exactly
\* when the entry's range contains the requested range and the entry's types
\* contain the needed types; otherwise it fetches exactly the requested range
\* and types, and when the fetch ends its result is the session's one entry,
\* with the requested range and types.
C10_CacheOrFreshFetch ==
  [][\A r \in ReqIds :
       LET req == slot'[r]
           sessionId == req.sessionId
       IN  /\ (LookupStep(r) /\ req.resolved.usesCustomRange /\ LiveEntry(sessionId)) =>
                LET entry == MapGet(cache, sessionId)
                IN  IF Covers(entry, req.resolved, req.dataTypes)
                    THEN ServedFromEntry(req, entry) /\ cache' = cache
                    ELSE FetchesRequested(req)
           /\ (FetchStep(r) /\ req.resolved.usesCustomRange /\ req.hit) =>
                /\ req.ouraData \in
                     {Upstream(req.resolved.startDate, req.resolved.endDate,
                               req.dataTypes), DataEmpty}
                /\ UniqueKeys(cache')
                /\ MapHas(cache', sessionId)
                /\ MapGet(cache', sessionId) =
                     [startDate |-> req.resolved.startDate,
                      endDate |-> req.resolved.endDate,
                      data |-> req.ouraData,
                      includedTypes |-> req.dataTypes,
                      timestamp |-> now]]_vars

\* One request was answered with a proper part of the cached data and is
\* still generating, and a second one, not covered by that entry, has fetched
\* and replaced it.
C10_Witness ==
  \E r, q \in ReqIds :
    /\ slot[r].pc = "generating" /\ slot[r].hit /\ slot[r].fetch = NoFetch
    /\ slot[r].resolved = DateRange(Day3, Day3, TRUE)
    /\ slot[r].dataTypes = HeartFlags
    /\ Len(slot[r].ouraData.heartRate.readings) = 2
    /\ slot[q].pc = "generating" /\ slot[q].hit /\ slot[q].fetch # NoFetch
    /\ slot[q].resolved = DateRange(Day1, Day4, TRUE)
    /\ slot[q].dataTypes = AllFlags
    /\ MapGet(cache, slot[q].sessionId).data = slot[q].ouraData
    /\ Len(slot[q].ouraData.heartRate.readings) > 2


\* ------------------------------------------------------------------------
\* The query handler, one request at a time
\* ------------------------------------------------------------------------

\* The step on which the handler of r reads the cache.
CacheRead(r) ==
  /\ slot[r].pc = "extracting"
  /\ "queryCache.get" \in slot'[r].did

\* What the prompt and the no-data message say of a range startDate..endDate.
PromptFromTo(startDate, endDate) ==
  [kind |-> "fromTo", startDate |-> startDate, endDate |-> endDate]
NoDataForPeriod(startDate, endDate) ==
  ContentEvent([kind |-> "noDataPeriod", startDate |-> startDate,
                endDate |-> endDate])

\* C11 (HandlerSpec): when the handler reads the cache, the session has a
\* non-expired entry and the query resolved to the default range, then no
\* fetch is made, the request's dataset is the entry's data as it is, the
\* cache is left alone, and the range told downstream is the entry's: in the
\* prompt's description when there is data, in the no-data message when there
\* is none.
C11_FollowUpReusesCachedRange ==
  [][\A r \in ReqIds :
       LET req == slot'[r]
           entry == MapGet(cache, req.sessionId)
       IN  (CacheRead(r) /\ LiveEntry(req.sessionId)
              /\ ~req.resolved.usesCustomRange) =>
             /\ req.fetch = NoFetch
             /\ "fetch" \notin req.did
             /\ req.pc \in {"generating", "closed"}
             /\ req.ouraData = entry.data
             /\ cache' = cache
             /\ IF req.pc = "generating"
                THEN req.prompt.description =
                       PromptFromTo(entry.startDate, entry.endDate)
                ELSE /\ Len(req.sse) = 2
                     /\ req.sse[1] = NoDataForPeriod(entry.startDate, entry.endDate)]_vars

\* A follow-up with no date phrase, on the entry that "yesterday" left, is
\* generating from that entry's data under that entry's range.
C11_Witness ==
  \E r \in ReqIds :
    /\ MapHas(cache, slot[r].sessionId)
    /\ MapGet(cache, slot[r].sessionId).startDate = Day3
    /\ MapGet(cache, slot[r].sessionId).endDate = Day3
    /\ slot[r].pc = "generating"
    /\ slot[r].hit
    /\ slot[r].resolved = DefaultRange
    /\ slot[r].fetch = NoFetch
    /\ slot[r].ouraData = MapGet(cache, slot[r].sessionId).data
    /\ slot[r].prompt.description = PromptFromTo(Day3, Day3)

\* C12 (HandlerSpec), as stated: whenever the handler reads the cache and
\* is not served from it, the fetch it starts asks for exactly the categories
\* the classifier flagged and exactly the resolved startDate..endDate; and
\* when the fetch ends its result is the session's cache entry.
C12_MissFetchesExactlyFlagged ==
  [][\A r \in ReqIds :
       LET req == slot'[r]
       IN  /\ (CacheRead(r) /\ req.pc = "fetching") =>
                /\ req.fetch.include = req.dataTypes
                /\ req.fetch.startDate = req.resolved.startDate
                /\ req.fetch.endDate = req.resolved.endDate
           /\ FetchStep(r) =>
                /\ MapHas(cache', req.sessionId)
                /\ MapGet(cache', req.sessionId).data = req.ouraData]_vars

\* C13 (HandlerSpec), as stated: a submission whose query is missing, not a
\* string, empty or longer than 500 characters is answered 400, with no
\* event written and no call made (date extraction, cache, fetch,
\* generation).
C13_InvalidQueryRejected ==
  \A r \in ReqIds :
    (slot[r].pc # "idle"
       /\ (Len(slot[r].query) = 0 \/ Len(slot[r].query) > MaxQueryLength)) =>
      /\ slot[r].pc = "closed"
      /\ slot[r].status = 400
      /\ slot[r].sse = <<>>
      /\ slot[r].did = {}

\* The step on which a request arrives in place r.
Arrives(r) == slot[r].pc \in {"idle", "closed"} /\ slot'[r] # slot[r]

\* C14 (HandlerSpec): a request with a valid query (1 to 500 characters) on a
\* session without an access token is answered 401 at once: no event is
\* written, the cache is neither read nor written, and date extraction,
\* fetch and generation are not called.
C14_NotConnectedRejected ==
  [][\A r \in ReqIds :
       (Arrives(r) /\ Len(slot'[r].query) \in 1..MaxQueryLength
          /\ slot'[r].sessionId \notin tokens) =>
         /\ slot'[r].pc = "closed"
         /\ slot'[r].status = 401
         /\ slot'[r].sse = <<>>
         /\ slot'[r].did = {}
         /\ cache' = cache
         /\ ret' = ret]_vars

\* A disconnected session whose cache still holds an entry has been refused.
C14_Witness ==
  \E r \in ReqIds :
    /\ slot[r].pc = "closed"
    /\ slot[r].status = 401
    /\ slot[r].query = Chars("How was my sleep last night?")
    /\ slot[r].sessionId \notin tokens
    /\ MapHas(cache, slot[r].sessionId)
    /\ slot[r].sse = <<>>

\* The step on which the dataset of r is settled: from the cache, or by the
\* end of the fetch.
DataSettled(r) ==
  /\ CacheRead(r) \/ FetchStep(r)
  /\ slot'[r].pc # "fetching"

\* The dataset is empty in all four categories.
AllEmpty(ouraData) ==
  /\ ouraData.sleep = <<>>
  /\ ouraData.activity = <<>>
  /\ ouraData.readiness = <<>>
  /\ ouraData.heartRate.readings = <<>>
  /\ ouraData.heartRate.dailyStats = <<>>

\* C15 (HandlerSpec): when the dataset settled for a request, fetched or
\* cached, is empty in all four categories, the response is exactly one
\* content event with the no-data message, then one done event, and the
\* stream is closed; there is no error event and generateWithRetry is not
\* called.
C15_NoDataStream ==
  [][\A r \in ReqIds :
       (DataSettled(r) /\ AllEmpty(slot'[r].ouraData)) =>
         /\ slot'[r].pc = "closed"
         /\ slot'[r].status = 200
         /\ Len(slot'[r].sse) = 2
         /\ slot'[r].sse[1].type = "content"
         /\ slot'[r].sse[1].text.kind \in {"noDataPeriod", "noDataRecent"}
         /\ slot'[r].sse[2].type = "done"
         /\ "generateWithRetry" \notin slot'[r].did]_vars

\* A fetch for yesterday came back empty and the no-data answer was sent;
\* a follow-up served from that empty entry got the same answer.
C15_Witness ==
  \E r \in ReqIds :
    /\ slot[r].pc = "closed"
    /\ slot[r].hit
    /\ slot[r].fetch = NoFetch
    /\ ~slot[r].resolved.usesCustomRange
    /\ AllEmpty(slot[r].ouraData)
    /\ slot[r].sse = <<NoDataForPeriod(Day3, Day3), DoneEventBare>>

\* An event that ends a stream.
IsTerminal(event) == event.type \in {"done", "error"}

\* C16 (HandlerSpec), as stated: every response stream is content events
\* followed by exactly one terminal event, done or error, with nothing
\* written after it (so never both); a closed stream has its terminal event;
\* and every done event carries an ouraData field.
C16_StreamShape ==
  \A r \in ReqIds :
    LET sse == slot[r].sse
    IN  /\ \A i \in 1..Len(sse) :
             /\ sse[i].type \in {"content", "done", "error"}
             /\ IsTerminal(sse[i]) => i = Len(sse)
             /\ sse[i].type = "done" => sse[i].hasOuraData
        /\ (slot[r].pc = "closed" /\ sse # <<>>) => IsTerminal(sse[Len(sse)])
        /\ (sse # <<>> /\ IsTerminal(sse[Len(sse)])) => slot[r].pc = "closed"

\* The step on which the handler of r fails: its response is closed, and not
\* by a done event.
Fails(r) ==
  /\ slot[r].pc \in {"extracting", "fetching", "generating", "streaming"}
  /\ slot'[r].pc = "closed"
  /\ \A i \in 1..Len(slot'[r].sse) : slot'[r].sse[i].type # "done"

\* C17 (HandlerSpec): when the handler fails after at least one event was
\* written, exactly one error event is added and the stream is closed
\* without a done event; when it fails before any event was written, no
\* event is written at all and the response is a 500 with a JSON body.
C17_FailureAfterOrBeforeWrite ==
  [][\A r \in ReqIds :
       Fails(r) =>
         IF slot[r].sse # <<>>
         THEN /\ slot'[r].sse = Append(slot[r].sse, ErrorEvent)
              /\ \A i \in 1..Len(slot[r].sse) : slot[r].sse[i].type = "content"
              /\ slot'[r].status = 200
              /\ slot'[r].json = ""
         ELSE /\ slot'[r].sse = <<>>
              /\ slot'[r].status = 500
              /\ slot'[r].json = "Failed to process query"]_vars

\* The stream failed after one chunk of text had been written.
C17_Witness ==
  \E r \in ReqIds :
    /\ slot[r].pc = "closed"
    /\ slot[r].chunks = 2
    /\ slot[r].sse = <<ContentEvent(ChunkText), ErrorEvent>>
    /\ slot[r].status = 200

\* The step on which the generation of r completes normally.
Completes(r) ==
  /\ slot[r].pc = "streaming"
  /\ slot'[r].pc = "closed"
  /\ slot'[r].sse # <<>>
  /\ slot'[r].sse[Len(slot'[r].sse)].type = "done"

\* The summary holds, for each daily stat of the dataset, its day, min, max
\* and avg and nothing else.
SummaryOf(summary, dailyStats) ==
  /\ Len(summary) = Len(dailyStats)
  /\ \A i \in 1..Len(summary) :
       /\ DOMAIN summary[i] = {"day", "min", "max", "avg"}
       /\ summary[i].day = dailyStats[i].day
       /\ summary[i].min = dailyStats[i].min
       /\ summary[i].max = dailyStats[i].max
       /\ summary[i].avg =
            IF dailyStats[i].avg = 0 THEN "null" ELSE dailyStats[i].avg

\* C18 (HandlerSpec): when the generation completes normally, one done event
\* is written after the content events and nothing else; its ouraData has
\* exactly the keys of the categories the classifier flagged; sleep,
\* activity and readiness are those of the dataset the prompt was built
\* from, and heartRate holds only day, min, max and avg of each daily stat
\* of that dataset.
C18_DonePayload ==
  [][\A r \in ReqIds :
       Completes(r) =>
         LET req == slot[r]
             done == slot'[r].sse[Len(slot'[r].sse)]
             payload == done.ouraData
         IN  /\ slot'[r].sse = Append(req.sse, done)
             /\ \A i \in 1..Len(req.sse) : req.sse[i].type = "content"
             /\ done.hasOuraData
             /\ ~payload.isNull
             /\ payload.keys = {k \in Categories : req.dataTypes[k]}
             /\ req.dataTypes.sleep =>
                  /\ payload.sleep = req.ouraData.sleep
                  /\ payload.sleep = req.prompt.sections.sleep
             /\ req.dataTypes.activity =>
                  /\ payload.activity = req.ouraData.activity
                  /\ payload.activity = req.prompt.sections.activity
             /\ req.dataTypes.readiness =>
                  /\ payload.readiness = req.ouraData.readiness
                  /\ payload.readiness = req.prompt.sections.readiness
             /\ req.dataTypes.heartRate =>
                  /\ SummaryOf(payload.heartRate, req.ouraData.heartRate.dailyStats)
                  /\ payload.heartRate = req.prompt.sections.heartRate]_vars

\* A heart-rate question was answered with two chunks of text and a done
\* event whose only key is heartRate, summarising several days.
C18_Witness ==
  \E r \in ReqIds :
    /\ slot[r].pc = "closed"
    /\ Len(slot[r].sse) = 3
    /\ slot[r].sse[1].type = "content"
    /\ slot[r].sse[2].type = "content"
    /\ slot[r].sse[3].type = "done"
    /\ slot[r].sse[3].ouraData.keys = {"heartRate"}
    /\ Len(slot[r].sse[3].ouraData.heartRate) >= 2
    /\ Len(slot[r].ouraData.heartRate.readings) > Len(slot[r].sse[3].ouraData.heartRate)
    /\ slot[r].ouraData.sleep # <<>>

\* The query of the scenario, and the day before today.
SleepLastNight == Chars("How was my sleep last night?")
Yesterday == FormatDate(TodayDate - 1)

\* C19 (HandlerSpec): for the query "How was my sleep last night?" the
\* resolved range is yesterday..yesterday and the classifier gives sleep and
\* not heartRate; and when the request, on a connected session with an empty
\* cache, fetched a dataset that has sleep items and its generation
\* completed, its stream ends with a done event whose payload has the key
\* sleep, with those items, and no key heartRate.
C19_SleepLastNight ==
  \A r \in ReqIds :
    (slot[r].query = SleepLastNight /\ "queryCache.get" \in slot[r].did) =>
      /\ slot[r].resolved = DateRange(Yesterday, Yesterday, TRUE)
      /\ slot[r].dataTypes.sleep
      /\ ~slot[r].dataTypes.heartRate
      /\ (/\ slot[r].pc = "closed"
          /\ ~slot[r].hit
          /\ slot[r].ouraData.sleep # <<>>
          /\ slot[r].status = 200
          /\ slot[r].sse[Len(slot[r].sse)].type # "error") =>
           LET done == slot[r].sse[Len(slot[r].sse)]
           IN  /\ done.type = "done"
               /\ done.hasOuraData
               /\ "sleep" \in done.ouraData.keys
               /\ "heartRate" \notin done.ouraData.keys
               /\ done.ouraData.sleep = slot[r].ouraData.sleep
               /\ \A i \in 1..Len(done.ouraData.sleep) :
                    done.ouraData.sleep[i].day = Yesterday

\* The scenario has run to its end: an empty cache, a fetch for yesterday
\* that returned yesterday's sleep, text streamed, and the done event.
C19_Witness ==
  \E r \in ReqIds :
    /\ slot[r].query = SleepLastNight
    /\ slot[r].pc = "closed"
    /\ ~slot[r].hit
    /\ slot[r].fetch = FetchByDateRange(DateRange(Yesterday, Yesterday, TRUE),
                                        slot[r].dataTypes)
    /\ slot[r].ouraData.sleep = <<Item(13, Day3)>>
    /\ Len(slot[r].sse) = 2
    /\ slot[r].sse[1].type = "content"
    /\ slot[r].sse[2].type = "done"
    /\ slot[r].sse[2].ouraData.keys = {"sleep"}
    /\ slot[r].sse[2].ouraData.sleep = <<Item(13, Day3)>>

\* ------------------------------------------------------------------------
\* detectRelevantDataTypes
\* ------------------------------------------------------------------------

\* The word occurs in the query, whatever the case of the query's letters.
Occurs(word, query) ==
  \E i \in 1..Len(query) :
    /\ i + Len(word) - 1 <= Len(query)
    /\ \A k \in 1..Len(word) :
         \/ query[i + k - 1] = word[k]
         \/ \E n \in 1..26 : UpperCase[n] = query[i + k - 1] /\ LowerCase[n] = word[k]

HeartRateWords == {Chars("heart"), Chars("hr"), Chars("bpm"), Chars("pulse")}
CategoryWords ==
  HeartRateWords
    \cup {Chars("sleep"), Chars("rest"), Chars("night"), Chars("bed"),
          Chars("rem"), Chars("deep"), Chars("awake"), Chars("activity"),
          Chars("step"), Chars("active"), Chars("exercise"), Chars("workout"),
          Chars("calories"), Chars("move"), Chars("readiness"),
          Chars("recovery"), Chars("ready"), Chars("stress"), Chars("strain")}

\* C20 (ClassifySpec): for a query in which no keyword of any category
\* occurs, detectRelevantDataTypes returns sleep = activity = readiness =
\* true and heartRate = false; and for every query heartRate is true exactly
\* when one of heart, hr, bpm, pulse occurs in it (as a substring, in any
\* case).
C20_DefaultsAndHeartRate ==
  fnOut # NoFn =>
    /\ (\A word \in CategoryWords : ~Occurs(word, fnIn.query)) =>
         fnOut.result = [sleep |-> TRUE, activity |-> TRUE, readiness |-> TRUE,
                         heartRate |-> FALSE]
    /\ fnOut.result.heartRate <=>
         \E word \in HeartRateWords : Occurs(word, fnIn.query)

\* The claim's example has been classified.
C20_Witness ==
  /\ fnIn = [fn |-> "detectRelevantDataTypes", query |-> Chars("How am I doing?")]
  /\ fnOut = [fn |-> "detectRelevantDataTypes",
              result |-> [sleep |-> TRUE, activity |-> TRUE, readiness |-> TRUE,
                          heartRate |-> FALSE]]

\* The keywords of each category.
WordsOf ==
  [sleep |-> SleepKeywords, activity |-> ActivityKeywords,
   readiness |-> ReadinessKeywords, heartRate |-> HeartRateKeywords]

\* A flag of a query in which some keyword occurs is true only if a keyword
\* of its own category occurs.
FlagsHaveOwnKeyword(query, result) ==
  (\E word \in CategoryWords : Occurs(word, query)) =>
    \A c \in Categories :
      result[c] => \E word \in WordsOf[c] : Occurs(word, query)

\* C21 (ClassifySpec): "What's my resting heart rate?" gives heartRate = true
\* and sleep = true ("rest" occurs in "resting"), activity = readiness =
\* false; and for every query in which some keyword occurs, a flag is true
\* only if a keyword of its own category occurs in the query (as a substring,
\* in any case).
C21_RestingHeartRate ==
  fnOut # NoFn =>
    /\ fnIn.query = RestingHeartRate =>
         fnOut.result = [sleep |-> TRUE, activity |-> FALSE,
                         readiness |-> FALSE, heartRate |-> TRUE]
    /\ FlagsHaveOwnKeyword(fnIn.query, fnOut.result)

\* C21 as stated: "What's my resting heart rate?" gives heartRate = true and
\* the other three flags false.
C21_AsStated ==
  fnOut # NoFn =>
    /\ fnIn.query = RestingHeartRate =>
         fnOut.result = [sleep |-> FALSE, activity |-> FALSE,
                         readiness |-> FALSE, heartRate |-> TRUE]
    /\ FlagsHaveOwnKeyword(fnIn.query, fnOut.result)

\* The claim's example has been classified.
C21_Witness ==
  /\ fnOut # NoFn
  /\ fnIn.query = RestingHeartRate
  /\ fnOut.result.heartRate
  /\ Occurs(Chars("rest"), fnIn.query)

\* ------------------------------------------------------------------------
\* extractDateRange as a function of the query, the day and the model's reply
\* ------------------------------------------------------------------------

\* The days on which the queries are asked.
LeapYearDay == DaysFromCivil(2024, 3, 31)
ResolveDays == {TodayDate, LeapYearDay}

\* The dates written in the queries: past ones, today (2025-01-10), future
\* ones, and one that no calendar has.
Day6 == Chars("2025-03-01")
NoSuchDay == Chars("2025-13-45")
WrittenDays == {Day1, Day3, Day4, Day5, Day6, NoSuchDay}

\* Queries with a pair of dates, alone or after other date keywords.
Separators == {Chars(" to "), Chars(" - "), Chars("-"), Chars("TO")}
PairPrefixes == {<<>>, Chars("Not today or the last 3 days but ")}
PairQuery(prefix, a, separator, b) == prefix \o a \o separator \o b
PairQueries ==
  {PairQuery(prefix, a, separator, b) :
     prefix \in PairPrefixes, a \in WrittenDays, separator \in Separators,
     b \in WrittenDays}

\* Queries with "last|past|previous N units".
Amounts ==
  {Chars("0"), Chars("1"), Chars("14"), Chars("053"), Chars("400"),
   Chars("999999999")}
UnitWords ==
  {Chars("day"), Chars("days"), Chars("week"), Chars("weeks"),
   Chars("month"), Chars("months"), Chars("year"), Chars("Years")}
RelativeQuery(word, amount, unit) ==
  Chars("Steps in the ") \o word \o <<" ">> \o amount \o <<" ">> \o unit
RelativeQueries ==
  {RelativeQuery(word, amount, unit) :
     word \in RelativeWords \cup {Chars("LAST")}, amount \in Amounts,
     unit \in UnitWords}

\* Queries for the other rules, for the date-extraction model, and with no
\* date reference.
KeywordQueries ==
  {Chars("today"), Chars("Steps yesterday"), Chars("Sleep last night"),
   Chars("Sleep on 2025-01-03"), Chars("Sleep on 2025-02-01"),
   Chars("Sleep on 2025-13-45"), Chars("this week"), Chars("Last  week"),
   Chars("this month"), Chars("last month"), Chars("this year"),
   Chars("last year"), Chars("Sleep in 2024"), Chars("Sleep in 2026"),
   Chars("last 14 days"), Chars("Yesterday and the last 14 days")}
ModelQueries ==
  {Chars("How was my sleep in the previous week?"), Chars("Sleep in March 2024"),
   Chars("Steps on Jan 5"), Chars("Best night of the year"),
   Chars("Sleep in the past month")}
PlainQueries == {Chars("How am I doing?"), Chars("Sleep in 1999")}
ResolveQueries ==
  PairQueries \cup RelativeQueries \cup KeywordQueries \cup ModelQueries
    \cup PlainQueries

ResolveInit ==
  /\ GenOff
  /\ CacheStart
  /\ AuthOff
  /\ QueryOff
  /\ fnOut = NoFn
  /\ \E query \in ResolveQueries, today \in ResolveDays, reply \in AiReplies :
       fnIn = [fn |-> "extractDateRange", query |-> query, today |-> today,
               reply |-> reply]

ApplyExtractDateRange ==
  /\ fnIn.fn = "extractDateRange"
  /\ fnOut = NoFn
  /\ fnOut' = [fn |-> "extractDateRange",
               result |-> ExtractDateRange(fnIn.query, fnIn.today, fnIn.reply)]
  /\ UNCHANGED <<genVars, cacheVars, queryVars, fnIn, authVars>>

ResolveSpec == ResolveInit /\ [][ApplyExtractDateRange]_vars

\* ------------------------------------------------------------------------
\* Claims about extractDateRange
\* ------------------------------------------------------------------------

\* The query is a pair query with the dates a and b.
IsPairOf(query, a, b) ==
  \E prefix \in PairPrefixes, separator \in Separators :
    query = PairQuery(prefix, a, separator, b)

\* The pair in order, and with its end clamped when it was in order.
PairSwapped(a, b) ==
  IF JsGt(a, b) THEN DateRange(b, a, TRUE) ELSE DateRange(a, b, TRUE)
PairSwappedOrClamped(a, b, todayStr) ==
  IF JsGt(a, b) THEN DateRange(b, a, TRUE)
  ELSE DateRange(a, IF JsGt(b, todayStr) THEN todayStr ELSE b, TRUE)

\* C22 (ResolveSpec): for a query with a pair "A to B" or "A - B", whatever
\* other date keywords it has, extractDateRange returns usesCustomRange = true
\* with the pair swapped when it is inverted, and with the end replaced by
\* today when the pair is not inverted and B is later than today.
C22_ExplicitPair ==
  fnOut # NoFn =>
    \A a \in WrittenDays, b \in WrittenDays :
      IsPairOf(fnIn.query, a, b) =>
        fnOut.result =
          Returned(PairSwappedOrClamped(a, b, FormatDate(fnIn.today)))

\* C22 as stated: for a query with a pair "A to B" or "A - B", whatever other
\* date keywords it has, extractDateRange returns exactly that pair with
\* usesCustomRange = true, swapped when the pair is inverted.
C22_AsStated ==
  fnOut # NoFn =>
    \A a \in WrittenDays, b \in WrittenDays :
      IsPairOf(fnIn.query, a, b) =>
        fnOut.result = Returned(PairSwapped(a, b))

\* A pair that ends after today, written after other date keywords, came back
\* with today as its end.
C22_Witness ==
  /\ fnOut # NoFn
  /\ fnIn.today = TodayDate
  /\ fnIn.query = PairQuery(Chars("Not today or the last 3 days but "),
                            Day3, Chars(" to "), Day5)
  /\ fnOut.result = Returned(DateRange(Day3, Day4, TRUE))

\* C23 (ResolveSpec): every DateRange that extractDateRange returns, on every
\* branch, has startDate <= endDate <= today.
C23_OrderedAndNotAfterToday ==
  fnOut # NoFn /\ fnOut.result.kind = "range" =>
    /\ JsLe(fnOut.result.range.startDate, fnOut.result.range.endDate)
    /\ JsLe(fnOut.result.range.endDate, FormatDate(fnIn.today))

\* The days in a unit: a week is 7, a month 30, a year 365.
DaysIn(unit) ==
  IF ToLowerCase(unit) \in {Chars("year"), Chars("years")} THEN 365
  ELSE IF ToLowerCase(unit) \in {Chars("month"), Chars("months")} THEN 30
  ELSE IF ToLowerCase(unit) \in {Chars("week"), Chars("weeks")} THEN 7
  ELSE 1

\* The range from `days` days before today to today.
DaysBack(today, days) ==
  Returned(DateRange(FormatDate(today - days), FormatDate(today), TRUE))

C25_NeverFails ==
  fnOut # NoFn => fnOut.result.kind = "range"

\* The replies with which the date extraction fails.
FailedReplies ==
  {AiFailure("throws"), AiFailure("noJson"), AiFailure("badJson"),
   AiFailure("missing"), AiDates(<<>>, Day4), AiDates(Day1, <<>>)}

\* The date-extraction model is asked: no rule parses the query and one of
\* DATE_PATTERNS matches it.
AiAttempted(query, today) ==
  /\ ParseDateRangeFromQuery(query, today).kind = "null"
  /\ HasDateReference(query)

\* C26 (ResolveSpec): when the date-extraction model is asked and its call
\* throws, or its reply has no JSON object, JSON that does not parse, or JSON
\* without startDate or endDate, extractDateRange returns the default range
\* {today - 7, today, usesCustomRange = false} and does not throw.
C26_FailedExtractionGivesDefault ==
  fnOut # NoFn /\ AiAttempted(fnIn.query, fnIn.today)
    /\ fnIn.reply \in FailedReplies =>
      fnOut.result =
        Returned(DateRange(FormatDate(fnIn.today - 7), FormatDate(fnIn.today),
                           FALSE))

\* The model was asked about "the previous week" and replied without an end
\* date; the default range came back.
C26_Witness ==
  /\ fnOut # NoFn
  /\ fnIn.query = Chars("How was my sleep in the previous week?")
  /\ fnIn.today = TodayDate
  /\ AiAttempted(fnIn.query, fnIn.today)
  /\ fnIn.reply = AiDates(Day1, <<>>)
  /\ fnOut.result = Returned(DefaultRange)

\* ------------------------------------------------------------------------
\* From the request body to the input of the generation: safeParse, the
\* destructuring of its data and buildStreamInput (routes/data.ts)
\* ------------------------------------------------------------------------

\* conversationHistory: undefined, or a list of turns {role, content}.
NoHistory == [defined |-> FALSE, turns |-> <<>>]
History(turns) == [defined |-> TRUE, turns |-> turns]
HistoryTurn(role, content) == [role |-> role, content |-> content]

\* The body the client posts: a query and, when it has prior messages, a
\* conversationHistory.
QueryRequest(query, conversationHistory) ==
  [kind |-> "string", query |-> query,
   conversationHistory |-> conversationHistory]

\* parsed.data: the object schema names query alone and zod strips the keys
\* a schema does not name, so conversationHistory is undefined in it
ParsedData(body) == [query |-> body.query, conversationHistory |-> NoHistory]

\* conversationHistory.slice(-10)
RecentHistory(turns) ==
  SubSeq(turns, IF Len(turns) > 10 THEN Len(turns) - 9 ELSE 1, Len(turns))

\* The turns and the texts of the input.
ConversationTurn(role, text) == [role |-> role, text |-> text]
ContextText == [kind |-> "systemContext, use the above data context", of |-> 0]
ReadyText == [kind |-> "I have the Oura data ready", of |-> 0]
ContentText(content) == [kind |-> "content", of |-> content]
QueryText(query) == [kind |-> "query", of |-> query]
ReplayedTurn(msg) ==
  ConversationTurn(IF msg.role = "assistant" THEN "model" ELSE "user",
                   ContentText(msg.content))

BuildStreamInput(query, conversationHistory) ==
  IF conversationHistory.defined /\ Len(conversationHistory.turns) > 0
  THEN [kind |-> "turns",
        turns |-> <<ConversationTurn("user", ContextText),
                    ConversationTurn("model", ReadyText)>>
                    \o [i \in 1..Len(RecentHistory(conversationHistory.turns)) |->
                          ReplayedTurn(RecentHistory(conversationHistory.turns)[i])]
                    \o <<ConversationTurn("user", QueryText(query))>>]
  ELSE [kind |-> "string", turns |-> <<>>]

\* The handler from the body to the input of generateWithRetry.
Rejected == [kind |-> "400", turns |-> <<>>]
StreamInputOfData(data) == BuildStreamInput(data.query, data.conversationHistory)
StreamInputFor(schema, body) ==
  IF SafeParse(schema, body) THEN StreamInputOfData(ParsedData(body))
  ELSE Rejected

\* The histories submitted: none, every one of at most two turns, and one of
\* ten, eleven and twelve turns.
Roles == {"user", "assistant", "system"}
ShortTurns == {HistoryTurn(role, content) : role \in Roles, content \in 1..2}
LongTurns(n) ==
  [i \in 1..n |-> HistoryTurn(IF i % 2 = 1 THEN "user" ELSE "assistant", i)]
Histories ==
  {NoHistory, History(<<>>)}
    \cup {History(<<a>>) : a \in ShortTurns}
    \cup {History(<<a, b>>) : a \in ShortTurns, b \in ShortTurns}
    \cup {History(LongTurns(n)) : n \in 10..12}
InputQueries == {Chars("And my steps?"), Chars("Why?"), <<>>}

InputInit ==
  /\ GenOff
  /\ CacheStart
  /\ AuthOff
  /\ QueryOff
  /\ fnOut = NoFn
  /\ \E query \in InputQueries, conversationHistory \in Histories,
        schema \in OuraQuerySchemas :
       fnIn = [fn |-> "buildStreamInput", schema |-> schema,
               body |-> QueryRequest(query, conversationHistory)]

ApplyBuildStreamInput ==
  /\ fnIn.fn = "buildStreamInput"
  /\ fnOut = NoFn
  /\ fnOut' = [fn |-> "buildStreamInput",
               result |-> StreamInputFor(fnIn.schema, fnIn.body)]
  /\ UNCHANGED <<genVars, cacheVars, queryVars, fnIn, authVars>>

InputSpec == InputInit /\ [][ApplyBuildStreamInput]_vars

\* The turn list for a query and the n turns submitted with it.
TurnListOf(query, turns) ==
  [kind |-> "turns",
   turns |->
     [i \in 1..(IF Len(turns) < 10 THEN Len(turns) ELSE 10) + 3 |->
        IF i = 1 THEN ConversationTurn("user", ContextText)
        ELSE IF i = 2 THEN ConversationTurn("model", ReadyText)
        ELSE IF i = (IF Len(turns) < 10 THEN Len(turns) ELSE 10) + 3
        THEN ConversationTurn("user", QueryText(query))
        ELSE LET msg == turns[Len(turns) - (IF Len(turns) < 10 THEN Len(turns)
                                             ELSE 10) + i - 2]
             IN  ConversationTurn(IF msg.role = "assistant" THEN "model"
                                  ELSE "user",
                                  ContentText(msg.content))]]

\* C27 (InputSpec): for a request accepted with a non-empty conversationHistory
\* of n turns, the input of the generation is the turn list: the context as a
\* user turn, the model's acknowledgment, the last min(n, 10) turns in order
\* with assistant as model and any other role as user, then the query as a
\* user turn; with no history it is a single string.
C27_HistoryBecomesTurns ==
  fnOut # NoFn /\ fnOut.result # Rejected =>
    IF fnIn.body.conversationHistory.defined
         /\ Len(fnIn.body.conversationHistory.turns) > 0
    THEN fnOut.result =
           TurnListOf(fnIn.body.query, fnIn.body.conversationHistory.turns)
    ELSE fnOut.result.kind = "string"

\* ------------------------------------------------------------------------
\* A HeartRateResult from the fetch to the narrowing by filterData
\* ------------------------------------------------------------------------

\* The readings the heart-rate endpoint may answer with: at most three, on
\* three days, one of them in the evening and one without a timestamp.
MaxReadings == 3
UpstreamReadings ==
  {Reading(bpm, day, Morning) : bpm \in {50, 61, 62}, day \in {Day1, Day3, Day4}}
    \cup {Reading(70, Day3, Evening), ReadingNoTimestamp(55)}
ReadingLists ==
  UNION {[1..n -> UpstreamReadings] : n \in 0..MaxReadings}

HeartInit ==
  /\ GenOff
  /\ CacheStart
  /\ AuthOff
  /\ QueryOff
  /\ fnOut = NoFn
  /\ \E readings \in ReadingLists :
       fnIn = [fn |-> "heartRate", readings |-> readings]

\* getHeartRateData, getHeartRateDataByDateRange: the readings and their stats
HeartRateFetched ==
  /\ fnIn.fn = "heartRate"
  /\ fnOut = NoFn
  /\ fnOut' = [fn |-> "fetched", result |-> HeartRateResult(fnIn.readings)]
  /\ UNCHANGED <<genVars, cacheVars, queryVars, fnIn, authVars>>

\* filterData on the entry that holds the fetched result
HeartRateFiltered(startDate, endDate) ==
  /\ fnOut # NoFn
  /\ fnOut.fn = "fetched"
  /\ fnOut' = [fn |-> "filtered",
               result |-> FilterHeartRate(fnOut.result, startDate, endDate)]
  /\ UNCHANGED <<genVars, cacheVars, queryVars, fnIn, authVars>>

HeartNext ==
  \/ HeartRateFetched
  \/ \E startDate \in {Day1, Day3, Day4}, endDate \in {Day1, Day3, Day4} :
       HeartRateFiltered(startDate, endDate)

HeartSpec == HeartInit /\ [][HeartNext]_vars

\* The readings of a day, their sum, and the days that readings have.
ReadingsOn(readings, day) ==
  SelectSeq(readings,
            LAMBDA reading :
              reading.hasTimestamp /\ SplitT0(reading.timestamp) = day)
RECURSIVE SumOfBpm(_)
SumOfBpm(readings) ==
  IF readings = <<>> THEN 0 ELSE Head(readings).bpm + SumOfBpm(Tail(readings))
BpmOf(readings) == {readings[i].bpm : i \in 1..Len(readings)}
DaysOfReadings(readings) ==
  {SplitT0(readings[i].timestamp) :
     i \in {j \in 1..Len(readings) : readings[j].hasTimestamp}}

\* dailyStats is the aggregation of the result's readings, day by day.
StatsAggregateReadings(hr) ==
  /\ {hr.dailyStats[i].day : i \in 1..Len(hr.dailyStats)}
       = DaysOfReadings(hr.readings)
  /\ \A i \in 1..Len(hr.dailyStats), j \in 1..Len(hr.dailyStats) :
       hr.dailyStats[i].day = hr.dailyStats[j].day => i = j
  /\ \A i \in 1..Len(hr.dailyStats) :
       LET stats == hr.dailyStats[i]
       IN  /\ stats.readings = ReadingsOn(hr.readings, stats.day)
           /\ stats.min \in BpmOf(stats.readings)
           /\ stats.max \in BpmOf(stats.readings)
           /\ \A bpm \in BpmOf(stats.readings) :
                stats.min <= bpm /\ bpm <= stats.max
           /\ 2 * Len(stats.readings) * stats.avg
                <= 2 * SumOfBpm(stats.readings) + Len(stats.readings)
           /\ 2 * SumOfBpm(stats.readings) + Len(stats.readings)
                < 2 * Len(stats.readings) * (stats.avg + 1)
           /\ stats.min <= stats.avg
           /\ stats.avg <= stats.max

\* C28 (HeartSpec): in every HeartRateResult, fetched or narrowed by
\* filterData, the dailyStats keys are the calendar days of its readings and
\* each day's stats hold exactly the result's readings of that day, their
\* least and greatest bpm, and their mean rounded to the nearest integer (so
\* min <= avg <= max).
C28_StatsAggregateReadings ==
  fnOut # NoFn => StatsAggregateReadings(fnOut.result)

\* Three readings were fetched; filterData dropped one day and kept a day with
\* two readings whose mean lies strictly between them.
C28_Witness ==
  /\ fnOut # NoFn
  /\ fnOut.fn = "filtered"
  /\ Len(fnIn.readings) = 3
  /\ Len(fnOut.result.readings) = 2
  /\ Len(fnOut.result.dailyStats) = 1
  /\ fnOut.result.dailyStats[1].min < fnOut.result.dailyStats[1].avg
  /\ fnOut.result.dailyStats[1].avg < fnOut.result.dailyStats[1].max

\* ------------------------------------------------------------------------
\* The query handler with failing reads and a caller that goes away
\* ------------------------------------------------------------------------

\* Queries about all four categories over a range of their own and over the
\* default range, and about heart rate only.
FaultQueries ==
  {Chars("Sleep, steps, stress and pulse 2024-12-31 to 2025-01-10"),
   Chars("Sleep, steps, stress and pulse?"),
   Chars("Heart rate from 2024-12-31 to 2025-01-10")}

FaultInit == QueryInit

FaultNext ==
  \/ \E r \in ReqIds, sessionId \in QuerySessions,
        body \in {Body(q) : q \in FaultQueries}, schema \in {"min"} :
       /\ \A q \in ReqIds : slot[q].pc \in {"idle", "closed"}
       /\ QueryArrives(r, sessionId, body, schema)
       /\ UNCHANGED <<genVars, fnVars, authVars>>
  \/ \E r \in ReqIds, reply \in {AiFailure("throws")} :
       DateRangeResolved(r, reply) /\ UNCHANGED <<genVars, fnVars, authVars>>
  \/ \E r \in ReqIds :
       \E data \in FetchOutcomes(slot[r].fetch) :
         FetchCompleted(r, data) /\ UNCHANGED <<genVars, fnVars, authVars>>
  \/ \E r \in ReqIds : GenerationResolves(r) /\ UNCHANGED <<genVars, fnVars, authVars>>
  \/ \E r \in ReqIds : GenerationRejects(r) /\ UNCHANGED <<genVars, fnVars, authVars>>
  \/ \E r \in ReqIds, hasText \in BOOLEAN :
       ChunkArrives(r, hasText) /\ UNCHANGED <<genVars, fnVars, authVars>>
  \/ \E r \in ReqIds : StreamEnds(r) /\ UNCHANGED <<genVars, fnVars, authVars>>
  \/ \E r \in ReqIds : StreamFails(r) /\ UNCHANGED <<genVars, fnVars, authVars>>
  \/ \E r \in ReqIds : CallerDisconnects(r) /\ UNCHANGED <<genVars, fnVars, authVars>>

FaultSpec == FaultInit /\ [][FaultNext]_vars

\* What the reads of a fetch return when none fails.
UpstreamOf(fetch) == Upstream(fetch.startDate, fetch.endDate, fetch.include)

\* A section of the prompt: the category's items, or its daily summary.
SectionOf(category, data) ==
  IF category = "heartRate" THEN HeartRateSummary(data.heartRate.dailyStats)
  ELSE data[category]

\* C29 (FaultSpec): when the reads of some categories fail during a fetch,
\* those categories are empty in the request's dataset and every other
\* category is as the vendor returned it; the handler goes on to the answer
\* (the prompt holds the other requested categories, or the no-data message is
\* sent when nothing is left), with no error response and no error event.
C29_FailedCategoryIsEmpty ==
  [][\A r \in ReqIds, failed \in SUBSET Categories :
       FetchCompleted(r, UpstreamExcept(slot[r].fetch, failed)) =>
         LET req == slot'[r]
             up == UpstreamOf(slot[r].fetch)
         IN  /\ \A category \in failed : req.ouraData[category] = NoData(category)
             /\ \A category \in Categories \ failed :
                  req.ouraData[category] = up[category]
             /\ req.status # 500
             /\ \A i \in 1..Len(req.sse) : req.sse[i] # ErrorEvent
             /\ IF \E category \in Categories \ failed :
                     up[category] # NoData(category)
                THEN /\ req.pc = "generating"
                     /\ \A category \in Categories \ failed :
                          req.dataTypes[category] =>
                            req.prompt.sections[category] = SectionOf(category, up)
                ELSE /\ req.pc = "closed"
                     /\ Len(req.sse) = 2
                     /\ req.sse[2] = DoneEventBare]_vars

\* The read of sleep failed and the reads of the other three did not: the
\* request goes on to the generation with an empty sleep list and the others
\* populated.
C29_Witness ==
  \E r \in ReqIds :
    /\ slot[r].pc = "generating"
    /\ slot[r].query = Chars("Sleep, steps, stress and pulse 2024-12-31 to 2025-01-10")
    /\ slot[r].ouraData = UpstreamExcept(slot[r].fetch, {"sleep"})
    /\ slot[r].ouraData.sleep = <<>>
    /\ UpstreamOf(slot[r].fetch).sleep # <<>>
    /\ slot[r].ouraData.activity # <<>>
    /\ slot[r].ouraData.readiness # <<>>
    /\ slot[r].ouraData.heartRate.readings # <<>>

\* C30 (FaultSpec): once the caller has closed the connection during the
\* relay of the stream, no content, done or error event is written to the
\* response.
C30_NoWriteAfterCallerGone ==
  \A r \in ReqIds : slot[r].lateWrites = 0

\* ------------------------------------------------------------------------
\* Claims about concurrent requests and the cache
\* ------------------------------------------------------------------------

\* The session's entry after a step is new: there was none, or another one.
EntryWritten(sessionId) ==
  /\ MapHas(cache', sessionId)
  /\ ~MapHas(cache, sessionId)
       \/ MapGet(cache', sessionId) # MapGet(cache, sessionId)

\* The entry after the step is what request r fetched, under r's own range
\* and types, stamped with the time of the step.
SnapshotOf(r, sessionId) ==
  /\ slot[r].pc = "fetching"
  /\ slot'[r].pc # "fetching"
  /\ slot[r].sessionId = sessionId
  /\ slot[r].fetch \in {FetchByDateRange(slot[r].dateRange, slot[r].dataTypes),
                        FetchLastDays}
  /\ slot'[r].ouraData \in FetchResults(slot[r].fetch)
  /\ MapGet(cache', sessionId) =
       [startDate |-> slot[r].dateRange.startDate,
        endDate |-> slot[r].dateRange.endDate,
        data |-> slot'[r].ouraData,
        includedTypes |-> slot[r].dataTypes,
        timestamp |-> now]

\* C31 (QuerySpec): with two requests of a session interleaving at their
\* awaits, every step that gives the session a new cache entry is the end of
\* one request's fetch and the entry is that request's snapshot whole (its
\* range, its types, the data it fetched); the session never has two entries;
\* so the entry is at all times absent or the snapshot of the request that
\* stored last.
C31_EntryIsOneSnapshot ==
  [][\A sessionId \in QuerySessions :
       /\ UniqueKeys(cache')
       /\ EntryWritten(sessionId) =>
            \E r \in ReqIds :
              /\ SnapshotOf(r, sessionId)
              /\ \A q \in ReqIds \ {r} : slot'[q] = slot[q]]_vars

\* Two requests with different ranges and types were in flight together and
\* both have stored; the entry is the second one's snapshot whole.
C31_Witness ==
  /\ slot[1].pc = "generating" /\ slot[2].pc = "generating"
  /\ "queryCache.set" \in slot[1].did /\ "queryCache.set" \in slot[2].did
  /\ slot[1].dateRange # slot[2].dateRange
  /\ slot[1].dataTypes # slot[2].dataTypes
  /\ slot[1].ouraData # slot[2].ouraData
  /\ MapGet(cache, slot[2].sessionId) =
       [startDate |-> slot[2].dateRange.startDate,
        endDate |-> slot[2].dateRange.endDate,
        data |-> slot[2].ouraData,
        includedTypes |-> slot[2].dataTypes,
        timestamp |-> now]

\* ------------------------------------------------------------------------
\* parseDateRangeFromQuery as a function of the query and the day
\* ------------------------------------------------------------------------

\* One phrase for each rule (two where the rule has two keywords), with the
\* rule's place in the order.
RulePhrases ==
  {[rule |-> 1, text |-> Chars("2025-01-03 to 2025-01-09")],
   [rule |-> 2, text |-> Chars("2024-12-31")],
   [rule |-> 3, text |-> Chars("today")],
   [rule |-> 4, text |-> Chars("yesterday")],
   [rule |-> 4, text |-> Chars("last night")],
   [rule |-> 5, text |-> Chars("last 3 days")],
   [rule |-> 6, text |-> Chars("this week")],
   [rule |-> 6, text |-> Chars("last week")],
   [rule |-> 7, text |-> Chars("this month")],
   [rule |-> 8, text |-> Chars("last month")],
   [rule |-> 9, text |-> Chars("this year")],
   [rule |-> 10, text |-> Chars("last year")],
   [rule |-> 11, text |-> Chars("2022")]}

\* The queries: each phrase alone, every two of them in either order, and
\* the example with "today" and "last 30 days".
PhrasePair(a, b) == a.text \o Chars(" and ") \o b.text
TodayAndLast30Days == Chars("Steps today and in the last 30 days")
ParseInit ==
  /\ GenOff
  /\ CacheStart
  /\ AuthOff
  /\ QueryOff
  /\ fnOut = NoFn
  /\ \E today \in ResolveDays :
       \/ \E a \in RulePhrases :
            fnIn = [fn |-> "parseDateRangeFromQuery", query |-> a.text,
                    today |-> today]
       \/ \E a \in RulePhrases, b \in RulePhrases :
            fnIn = [fn |-> "parseDateRangeFromQuery",
                    query |-> PhrasePair(a, b), today |-> today]
       \/ fnIn = [fn |-> "parseDateRangeFromQuery",
                  query |-> TodayAndLast30Days, today |-> today]

ApplyParseDateRangeFromQuery ==
  /\ fnIn.fn = "parseDateRangeFromQuery"
  /\ fnOut = NoFn
  /\ fnOut' = [fn |-> "parseDateRangeFromQuery",
               result |-> ParseDateRangeFromQuery(fnIn.query, fnIn.today)]
  /\ UNCHANGED <<genVars, cacheVars, queryVars, fnIn, authVars>>

ParseSpec == ParseInit /\ [][ApplyParseDateRangeFromQuery]_vars

\* The range of each rule's phrase on 2025-01-10 and on 2024-03-31, written
\* out from the calendar.
RangeOn20250110 ==
  <<DateRange(Chars("2025-01-03"), Chars("2025-01-09"), TRUE),
    DateRange(Chars("2024-12-31"), Chars("2024-12-31"), TRUE),
    DateRange(Chars("2025-01-10"), Chars("2025-01-10"), TRUE),
    DateRange(Chars("2025-01-09"), Chars("2025-01-09"), TRUE),
    DateRange(Chars("2025-01-07"), Chars("2025-01-10"), TRUE),
    DateRange(Chars("2025-01-03"), Chars("2025-01-10"), TRUE),
    DateRange(Chars("2025-01-01"), Chars("2025-01-10"), TRUE),
    DateRange(Chars("2024-12-01"), Chars("2024-12-31"), TRUE),
    DateRange(Chars("2025-01-01"), Chars("2025-01-10"), TRUE),
    DateRange(Chars("2024-01-01"), Chars("2024-12-31"), TRUE),
    DateRange(Chars("2022-01-01"), Chars("2022-12-31"), TRUE)>>
RangeOn20240331 ==
  <<DateRange(Chars("2025-01-03"), Chars("2025-01-09"), TRUE),
    DateRange(Chars("2024-12-31"), Chars("2024-12-31"), TRUE),
    DateRange(Chars("2024-03-31"), Chars("2024-03-31"), TRUE),
    DateRange(Chars("2024-03-30"), Chars("2024-03-30"), TRUE),
    DateRange(Chars("2024-03-28"), Chars("2024-03-31"), TRUE),
    DateRange(Chars("2024-03-24"), Chars("2024-03-31"), TRUE),
    DateRange(Chars("2024-03-01"), Chars("2024-03-31"), TRUE),
    DateRange(Chars("2024-02-01"), Chars("2024-02-29"), TRUE),
    DateRange(Chars("2024-01-01"), Chars("2024-03-31"), TRUE),
    DateRange(Chars("2023-01-01"), Chars("2023-12-31"), TRUE),
    DateRange(Chars("2022-01-01"), Chars("2022-12-31"), TRUE)>>
RuleRange(rule, today) ==
  IF today = TodayDate THEN RangeOn20250110[rule] ELSE RangeOn20240331[rule]

\* C32 (ParseSpec): the rules are tried in the order range, single date,
\* today, yesterday or last night, last N units, this or last week, this
\* month, last month, this year, last year, bare year, and the first that
\* matches gives the range: a query with the phrases of two rules gets the
\* range of the earlier rule, in whichever order the phrases stand; "today"
\* with "last 30 days" gives today..today.
C32_FirstRuleWins ==
  fnOut # NoFn =>
    /\ \A a \in RulePhrases :
         fnIn.query = a.text =>
           fnOut.result = Returned(RuleRange(a.rule, fnIn.today))
    /\ \A a \in RulePhrases, b \in RulePhrases :
         fnIn.query = PhrasePair(a, b) =>
           fnOut.result =
             Returned(RuleRange(IF a.rule <= b.rule THEN a.rule ELSE b.rule,
                                fnIn.today))
    /\ fnIn.query = TodayAndLast30Days =>
         fnOut.result = Returned(RuleRange(3, fnIn.today))

\* "last year and this month" on 2024-03-31 gave March 2024, the range of
\* the earlier rule, although its phrase stands second.
C32_Witness ==
  /\ fnOut # NoFn
  /\ fnIn.today = LeapYearDay
  /\ fnIn.query = Chars("last year and this month")
  /\ fnOut.result =
       Returned(DateRange(Chars("2024-03-01"), Chars("2024-03-31"), TRUE))

\* ------------------------------------------------------------------------
\* Claims about the cache's sweep
\* ------------------------------------------------------------------------

\* C33 (CacheSpec): a sweep removes every entry with now - timestamp > TTL
\* and leaves every other entry as it was, under its key; a get returns no
\* entry older than TTL, whatever sweeps, gets and sets came before; and a
\* sweep removes no entry that a get at the same instant would have returned.
C33_SweepRemovesOnlyExpired ==
  [][/\ ret'.op = "cleanup" =>
          /\ UniqueKeys(cache')
          /\ \A s \in SessionIds :
               /\ MapHas(cache', s) <=>
                    (MapHas(cache, s) /\ now - MapGet(cache, s).timestamp <= TTL)
               /\ MapHas(cache', s) => MapGet(cache', s) = MapGet(cache, s)
               /\ CacheGetFound(s) =>
                    MapHas(cache', s) /\ MapGet(cache', s) = MapGet(cache, s)
     /\ (ret'.op = "get" /\ ret'.found) => now - ret'.entry.timestamp <= TTL
    ]_vars

\* A sweep has run when one session's entry was older than TTL and the
\* other's was aged TTL exactly: only the latter is left.
C33_Witness ==
  /\ ret.op = "cleanup"
  /\ now = TTL + 1
  /\ Len(cache) = 1
  /\ now - cache[1].entry.timestamp = TTL


\* ------------------------------------------------------------------------
\* Claims about what the cache serves
\* ------------------------------------------------------------------------

\* C34 (HandlerSpec), as stated: whenever the handler reads the cache and
\* serves the request from the entry it found instead of fetching, on the
\* follow-up path or on the sub-range path, every category the classifier
\* flagged for the query is among the entry's includedTypes.
C34_ServedTypesAreIncluded ==
  [][\A r \in ReqIds :
       LET req == slot'[r]
       IN  (CacheRead(r) /\ req.hit /\ req.pc # "fetching") =>
             NeededAreIncluded(req.dataTypes,
                               MapGet(cache, req.sessionId).includedTypes)]_vars


\* C35 (ClassifySpec): detectRelevantDataTypes returns at least one true
\* flag for every query, and so the payload that buildRelevantDataPayload
\* makes of those flags for the done event, from a dataset that is full or
\* empty, is not null and has at least one category key.
C35_SomeFlagSomeKey ==
  fnOut # NoFn =>
    /\ \E k \in Categories : fnOut.result[k]
    /\ \A ouraData \in {DataEmpty, Upstream(Day1, Day4, AllFlags)} :
         LET relevantData == BuildRelevantDataPayload(ouraData, fnOut.result)
         IN  /\ ~relevantData.isNull
             /\ relevantData.keys # {}
             /\ relevantData.keys = {k \in Categories : fnOut.result[k]}

\* A query with no keyword of any category was classified: the fallback
\* gave sleep, activity and readiness, and the payload has those three keys.
C35_Witness ==
  /\ fnOut # NoFn
  /\ fnIn.query = Chars("trend")
  /\ fnOut.result = [sleep |-> TRUE, activity |-> TRUE, readiness |-> TRUE,
                     heartRate |-> FALSE]
  /\ BuildRelevantDataPayload(DataEmpty, fnOut.result).keys =
       {"sleep", "activity", "readiness"}


\* C36 (HandlerSpec): a request served from the cache, on the follow-up path
\* or on the sub-range path, leaves the cache as it was, timestamps included,
\* and the entry it was served from is aged at most TTL; an entry appears or
\* changes only when a fetch of its session ends, and is then stamped with
\* the time of that step.  So no entry is served later than TTL after the
\* fetch that made it, however many hits came in between.
C36_HitLeavesEntryAlone ==
  [][/\ \A r \in ReqIds :
          (CacheRead(r) /\ slot'[r].hit /\ slot'[r].pc # "fetching") =>
            /\ cache' = cache
            /\ now - MapGet(cache, slot[r].sessionId).timestamp <= TTL
     /\ \A sessionId \in QuerySessions :
          (/\ MapHas(cache', sessionId)
           /\ MapHas(cache, sessionId) =>
                MapGet(cache', sessionId) # MapGet(cache, sessionId)) =>
            /\ MapGet(cache', sessionId).timestamp = now
            /\ \E r \in ReqIds :
                 FetchStep(r) /\ slot[r].sessionId = sessionId
    ]_vars

\* A request is served from an entry aged TTL exactly, made by a fetch
\* at time 0; the entry is still stamped 0.
C36_Witness ==
  \E r \in ReqIds :
    /\ slot[r].pc = "generating"
    /\ slot[r].hit
    /\ slot[r].fetch = NoFetch
    /\ now = TTL
    /\ MapHas(cache, slot[r].sessionId)
    /\ MapGet(cache, slot[r].sessionId).timestamp = 0
    /\ slot[r].ouraData = MapGet(cache, slot[r].sessionId).data


\* ------------------------------------------------------------------------
\* The access token and its refresh (server/oura.ts), under the query
\* handler's fetches
\* ------------------------------------------------------------------------

AccessToken(n) == [kind |-> "access", n |-> n]
RefreshToken(n) == [kind |-> "refresh", n |-> n]

\* ensureValidAccessToken(req) up to its await: the stored token is returned,
\* null is returned, or refreshAccessToken is called.
RefreshMargin == 60000
TokenIsFreshTo(at, expiry) == at <= expiry - RefreshMargin
TokenIsFresh(at, expiry) == at < expiry - RefreshMargin
EnsureValidAccessToken(sess, at) ==
  IF sess.ouraAccessToken = NoToken THEN "null"
  ELSE IF sess.ouraTokenExpiry = 0 THEN "token"
  ELSE IF TokenIsFresh(at, sess.ouraTokenExpiry) THEN "token"
  ELSE IF sess.ouraRefreshToken = NoToken THEN "null"
  ELSE "refresh"

\* The reads that Promise.all starts, in the order of the array, and the
\* place of a read's call among the calls made to the token endpoint.
CategoryOrder == <<"sleep", "activity", "readiness", "heartRate">>
ReadsBefore(fetch, category) ==
  {i \in 1..Len(CategoryOrder) :
     /\ fetch.include[CategoryOrder[i]]
     /\ \E j \in i..Len(CategoryOrder) : CategoryOrder[j] = category}

\* getAllOuraData / getAllOuraDataByDateRange up to their await: every read
\* asked for runs getHeaders up to its own await; a read not asked for is
\* resolved at once.
Launched(fetch, sess, at) ==
  [category \in Categories |->
     IF ~fetch.include[category] THEN [FetcherOff EXCEPT !.pc = "done"]
     ELSE IF EnsureValidAccessToken(sess, at) = "token"
     THEN [FetcherOff EXCEPT !.pc = "calling", !.token = sess.ouraAccessToken]
     ELSE IF EnsureValidAccessToken(sess, at) = "null"
     THEN [FetcherOff EXCEPT !.pc = "done"]
     ELSE [FetcherOff EXCEPT
             !.pc = "refreshing",
             !.call = Len(endpoint) + Cardinality(ReadsBefore(fetch, category))]]

RefreshCall(refreshToken) ==
  [grant |-> "refresh_token", presented |-> refreshToken]
Posted(fetch, sess, at) ==
  IF EnsureValidAccessToken(sess, at) # "refresh" THEN endpoint
  ELSE endpoint \o
         [i \in 1..Cardinality({c \in Categories : fetch.include[c]}) |->
            RefreshCall(sess.ouraRefreshToken)]

\* The handler's step from the date range to its next await, with the start
\* of the reads when it fetches.
TokenLookup(r, reply) ==
  /\ DateRangeResolved(r, reply)
  /\ IF slot'[r].pc = "fetching"
     THEN /\ fetcher' = Launched(slot'[r].fetch, session[slot[r].sessionId], now)
          /\ endpoint' = Posted(slot'[r].fetch, session[slot[r].sessionId], now)
     ELSE UNCHANGED <<fetcher, endpoint>>
  /\ UNCHANGED <<session, callback>>

\* refreshAccessToken resolves: null, or the tokens the endpoint issued for
\* this call, with their lifetime in seconds.
RefreshFailed == [ok |-> FALSE, expiresIn |-> 0]
Refreshed(expiresIn) == [ok |-> TRUE, expiresIn |-> expiresIn]
ExpiresIn == {86400}
RefreshReplies == {RefreshFailed} \cup {Refreshed(e) : e \in ExpiresIn}

\* ensureValidAccessToken after its await, and getHeaders: null ends the
\* read with an empty result; a token is stored and the data API is called.
RefreshResolves(r, category, reply) ==
  /\ slot[r].pc = "fetching"
  /\ fetcher[category].pc = "refreshing"
  /\ IF ~reply.ok
     THEN /\ fetcher' = [fetcher EXCEPT ![category].pc = "done"]
          /\ UNCHANGED session
     ELSE /\ session' =
               [session EXCEPT ![slot[r].sessionId] =
                  [@ EXCEPT !.ouraAccessToken = AccessToken(fetcher[category].call),
                            !.ouraRefreshToken = RefreshToken(fetcher[category].call),
                            !.ouraTokenExpiry = now + reply.expiresIn * 1000]]
          /\ fetcher' = [fetcher EXCEPT
                           ![category].pc = "calling",
                           ![category].token = AccessToken(fetcher[category].call)]
  /\ UNCHANGED <<queryVars, cacheVars, endpoint, callback>>

\* The read's calls of the data API resolve, or one throws and is caught.
ApiResolves(category, ok) ==
  /\ fetcher[category].pc = "calling"
  /\ fetcher' = [fetcher EXCEPT ![category].pc = "done", ![category].got = ok]
  /\ UNCHANGED <<queryVars, cacheVars, session, endpoint, callback>>

\* Promise.all resolves when every read has: the handler stores the result
\* and goes on.
ReadsFailed == {category \in Categories : ~fetcher[category].got}
TokenFetchCompleted(r) ==
  /\ \A category \in Categories : fetcher[category].pc = "done"
  /\ FetchCompleted(r, UpstreamExcept(slot[r].fetch, ReadsFailed))
  /\ fetcher' = [category \in Categories |-> FetcherOff]
  /\ UNCHANGED <<session, endpoint, callback>>

\* The session as the OAuth callback left it: an access token, a refresh
\* token or none, and an expiry that is missing, within the refresh margin,
\* or one millisecond before it.
MaxTokenCalls == 5
StoredExpiries == {0, 1, RefreshMargin + 1}
ConnectedSessions ==
  {[NoSession EXCEPT !.ouraAccessToken = AccessToken(0),
                     !.ouraRefreshToken = refreshToken,
                     !.ouraTokenExpiry = expiry] :
     refreshToken \in {NoToken, RefreshToken(0)}, expiry \in StoredExpiries}

TokenQueries ==
  {Chars("Sleep, steps, stress and pulse 2024-12-31 to 2025-01-10"),
   Chars("My pulse yesterday")}

TokenInit ==
  /\ GenOff
  /\ CacheStart
  /\ FnOff
  /\ tokens = QuerySessions
  /\ slot = [r \in ReqIds |-> IdleSlot]
  /\ \E sess \in ConnectedSessions :
       session = [sessionId \in SessionIds |->
                    IF sessionId \in QuerySessions THEN sess ELSE NoSession]
  /\ fetcher = [category \in Categories |-> FetcherOff]
  /\ endpoint = <<>>
  /\ callback = [sessionId \in SessionIds |-> CallbackOff]

TokenNext ==
  \/ \E r \in ReqIds, sessionId \in QuerySessions,
        body \in {Body(q) : q \in TokenQueries}, schema \in {"min"} :
       /\ \A q \in ReqIds : slot[q].pc \in {"idle", "closed"}
       /\ Len(endpoint) + Cardinality(Categories) <= MaxTokenCalls
       /\ QueryArrives(r, sessionId, body, schema)
       /\ UNCHANGED <<genVars, fnVars, authVars>>
  \/ \E r \in ReqIds, reply \in {AiFailure("throws")} :
       TokenLookup(r, reply) /\ UNCHANGED <<genVars, fnVars>>
  \/ \E r \in ReqIds, category \in Categories, reply \in RefreshReplies :
       RefreshResolves(r, category, reply) /\ UNCHANGED <<genVars, fnVars>>
  \/ \E category \in Categories, ok \in BOOLEAN :
       ApiResolves(category, ok) /\ UNCHANGED <<genVars, fnVars>>
  \/ \E r \in ReqIds : TokenFetchCompleted(r) /\ UNCHANGED <<genVars, fnVars>>
  \/ \E r \in ReqIds :
       GenerationResolves(r) /\ UNCHANGED <<genVars, fnVars, authVars>>
  \/ \E r \in ReqIds : StreamEnds(r) /\ UNCHANGED <<genVars, fnVars, authVars>>
  \/ ClockAdvance /\ UNCHANGED <<ret, genVars, queryVars, fnVars, authVars>>

TokenSpec == TokenInit /\ [][TokenNext]_vars

\* C37 (TokenSpec), as stated: at most one call of the token endpoint is in
\* flight at any time, and no refresh token is presented to it twice.
C37_OneRefreshInFlight ==
  /\ Cardinality({category \in Categories :
                    fetcher[category].pc = "refreshing"}) <= 1
  /\ \A i, j \in 1..Len(endpoint) :
       endpoint[i].presented = endpoint[j].presented => i = j


\* The session's access token is within the refresh margin of its expiry, or
\* past it.
TokenIsStale(sess, at) ==
  /\ sess.ouraAccessToken # NoToken
  /\ sess.ouraTokenExpiry # 0
  /\ at >= sess.ouraTokenExpiry - RefreshMargin

\* C38 (TokenSpec): when the handler starts a fetch while the session's
\* access token is stale and no refresh token is stored, every read asked
\* for ends at once with an empty result, without a call of the token
\* endpoint or of the data API, and the session is left as it was; when a
\* read's refresh fails, that read ends with an empty result without calling
\* the data API and the session is left as it was; and when no read of a
\* fetch got a token, the handler answers 200 with the no-data message and a
\* bare done event, and nothing else.
C38_NoTokenMeansNoData ==
  [][\A r \in ReqIds :
       /\ (/\ CacheRead(r) /\ slot'[r].pc = "fetching"
           /\ TokenIsStale(session[slot[r].sessionId], now)
           /\ session[slot[r].sessionId].ouraRefreshToken = NoToken) =>
            /\ session' = session
            /\ endpoint' = endpoint
            /\ \A category \in Categories :
                 /\ fetcher'[category].pc = "done"
                 /\ fetcher'[category].token = NoToken
                 /\ ~fetcher'[category].got
       /\ \A category \in Categories :
            (/\ slot[r].pc = "fetching"
             /\ fetcher[category].pc = "refreshing"
             /\ fetcher'[category].pc = "done") =>
              /\ session' = session
              /\ fetcher'[category].token = NoToken
              /\ ~fetcher'[category].got
       /\ (FetchStep(r) /\ \A category \in Categories :
                             fetcher[category].token = NoToken) =>
            /\ slot'[r].pc = "closed"
            /\ slot'[r].status = 200
            /\ slot'[r].json = ""
            /\ slot'[r].sse =
                 <<ContentEvent(NoDataMsg(slot[r].dateRange)), DoneEventBare>>
    ]_vars

\* Four reads presented the refresh token and every refresh failed: the
\* request was answered with the no-data message and done, and the session
\* still holds the tokens and the expiry it had.
C38_Witness ==
  \E r \in ReqIds :
    /\ slot[r].pc = "closed"
    /\ Len(slot[r].sse) = 2
    /\ slot[r].sse[1].type = "content"
    /\ slot[r].sse[1].text.kind = "noDataPeriod"
    /\ slot[r].sse[2] = DoneEventBare
    /\ Len(endpoint) = 4
    /\ session[slot[r].sessionId].ouraAccessToken = AccessToken(0)
    /\ session[slot[r].sessionId].ouraRefreshToken = RefreshToken(0)
    /\ session[slot[r].sessionId].ouraTokenExpiry = 1


\* ------------------------------------------------------------------------
\* The OAuth routes (server/routes/auth.ts)
\* ------------------------------------------------------------------------

\* A query parameter that is present, and the values drawn for state and code.
Str(value) == [defined |-> TRUE, value |-> value]
StateValues == {"5f1c", "9ab0"}
StateParams == {Undefined} \cup {Str(v) : v \in StateValues}
CodeParams == {Undefined, Str("code1")}
MaxExchanges == 2

\* GET /api/auth/oura: a random state is stored in the session and sent out
\* in the authorization URL.
Authorize(sessionId, state) ==
  /\ session' = [session EXCEPT ![sessionId].oauthState = Str(state)]
  /\ callback' = [callback EXCEPT ![sessionId].issued = @ \cup {state}]
  /\ UNCHANGED <<fetcher, endpoint, queryVars, cacheVars>>

\* The test of the state parameter: state !== req.session.oauthState
StateDiffers(state, oauthState) == state # oauthState

\* GET /api/auth/oura/callback up to its await: the redirects for error, a
\* missing code and a wrong state; else the state is consumed and
\* exchangeCodeForTokens is called.
CallbackArrives(sessionId, code, state, error) ==
  /\ callback[sessionId].pc = "off"
  /\ Len(endpoint) < MaxExchanges
  /\ IF error
     THEN /\ callback' = [callback EXCEPT ![sessionId].redirect = "/?error=access_denied"]
          /\ UNCHANGED <<session, endpoint>>
     ELSE IF ~code.defined
     THEN /\ callback' = [callback EXCEPT ![sessionId].redirect = "/?error=no_code"]
          /\ UNCHANGED <<session, endpoint>>
     ELSE IF StateDiffers(state, session[sessionId].oauthState)
     THEN /\ callback' = [callback EXCEPT ![sessionId].redirect = "/?error=invalid_state"]
          /\ UNCHANGED <<session, endpoint>>
     ELSE /\ session' = [session EXCEPT ![sessionId].oauthState = Undefined]
          /\ endpoint' = Append(endpoint, [grant |-> "authorization_code",
                                           presented |-> code.value])
          /\ callback' = [callback EXCEPT
                            ![sessionId].pc = "exchanging",
                            ![sessionId].code = code.value,
                            ![sessionId].state = state,
                            ![sessionId].call = Len(endpoint) + 1,
                            ![sessionId].redirect = "",
                            ![sessionId].issued = @ \ {state.value}]
  /\ UNCHANGED <<fetcher, queryVars, cacheVars>>

\* exchangeCodeForTokens resolves: null, or the tokens issued for the code.
ExchangeResolves(sessionId, reply) ==
  /\ callback[sessionId].pc = "exchanging"
  /\ IF ~reply.ok
     THEN /\ callback' = [callback EXCEPT
                            ![sessionId].pc = "off",
                            ![sessionId].redirect = "/?error=token_exchange_failed"]
          /\ UNCHANGED <<session, tokens>>
     ELSE /\ session' =
               [session EXCEPT ![sessionId] =
                  [@ EXCEPT !.ouraAccessToken = AccessToken(callback[sessionId].call),
                            !.ouraRefreshToken = RefreshToken(callback[sessionId].call),
                            !.ouraTokenExpiry = now + reply.expiresIn * 1000]]
          /\ tokens' = tokens \cup {sessionId}
          /\ callback' = [callback EXCEPT ![sessionId].pc = "off",
                                          ![sessionId].redirect = "/?connected=true"]
  /\ UNCHANGED <<fetcher, endpoint, slot, cacheVars>>

AuthInit ==
  /\ GenOff
  /\ CacheStart
  /\ AuthOff
  /\ QueryOff
  /\ FnOff

AuthNext ==
  \/ \E sessionId \in SessionIds, state \in StateValues :
       Authorize(sessionId, state) /\ UNCHANGED <<genVars, fnVars>>
  \/ \E sessionId \in SessionIds, code \in CodeParams, state \in StateParams,
        error \in BOOLEAN :
       CallbackArrives(sessionId, code, state, error) /\ UNCHANGED <<genVars, fnVars>>
  \/ \E sessionId \in SessionIds, reply \in RefreshReplies :
       ExchangeResolves(sessionId, reply) /\ UNCHANGED <<genVars, fnVars>>

AuthSpec == AuthInit /\ [][AuthNext]_vars

\* C39 (AuthSpec), as stated: a callback reaches the token exchange only with
\* a state parameter that is present and equal to a state issued to its
\* session and not yet consumed; and tokens are stored in a session only by
\* a callback that reached the exchange so.
C39_ExchangeNeedsIssuedState ==
  [][\A sessionId \in SessionIds :
       /\ (callback[sessionId].pc = "off" /\ callback'[sessionId].pc = "exchanging") =>
            /\ callback'[sessionId].state.defined
            /\ callback'[sessionId].state.value \in callback[sessionId].issued
       /\ session'[sessionId].ouraAccessToken # session[sessionId].ouraAccessToken =>
            /\ callback[sessionId].pc = "exchanging"
            /\ callback[sessionId].state.defined
    ]_vars


\* ------------------------------------------------------------------------
\* Disconnecting and reconnecting under the query handler
\* ------------------------------------------------------------------------

\* POST /api/auth/oura/disconnect between two requests, with the history
\* kept: the entry the session has in the cache, if any, was written before
\* this disconnect.
SessionDisconnects(sessionId) ==
  /\ \A r \in ReqIds : slot[r].pc \in {"idle", "closed"}
  /\ Disconnect(sessionId)
  /\ callback' = [callback EXCEPT
                    ![sessionId].entryPredatesDisconnect = MapHas(cache, sessionId)]
  /\ UNCHANGED <<session, fetcher, endpoint>>

\* The end of a fetch with the history kept: the session's entry is new.
FetchStored(r, data) ==
  /\ FetchCompleted(r, data)
  /\ callback' = [callback EXCEPT
                    ![slot[r].sessionId].entryPredatesDisconnect = FALSE]
  /\ UNCHANGED <<session, fetcher, endpoint>>

ReconnectQueries ==
  {Chars("Heart rate from 2024-12-31 to 2025-01-10"),
   Chars("My pulse yesterday"), Chars("How am I doing?")}

ReconnectInit == QueryInit

ReconnectNext ==
  \/ \E r \in ReqIds, sessionId \in QuerySessions,
        body \in {Body(q) : q \in ReconnectQueries}, schema \in {"min"} :
       /\ \A q \in ReqIds : slot[q].pc \in {"idle", "closed"}
       /\ QueryArrives(r, sessionId, body, schema)
       /\ UNCHANGED <<genVars, fnVars, authVars>>
  \/ \E r \in ReqIds, reply \in {AiFailure("throws")} :
       DateRangeResolved(r, reply) /\ UNCHANGED <<genVars, fnVars, authVars>>
  \/ \E r \in ReqIds :
       \E data \in FetchResults(slot[r].fetch) :
         FetchStored(r, data) /\ UNCHANGED <<genVars, fnVars>>
  \/ \E r \in ReqIds :
       GenerationResolves(r) /\ UNCHANGED <<genVars, fnVars, authVars>>
  \/ \E r \in ReqIds : StreamEnds(r) /\ UNCHANGED <<genVars, fnVars, authVars>>
  \/ \E sessionId \in QuerySessions :
       SessionDisconnects(sessionId) /\ UNCHANGED <<genVars, fnVars>>
  \/ \E sessionId \in QuerySessions :
       Connect(sessionId) /\ UNCHANGED <<genVars, fnVars, authVars>>
  \/ ClockAdvance /\ UNCHANGED <<ret, genVars, queryVars, fnVars, authVars>>

ReconnectSpec == ReconnectInit /\ [][ReconnectNext]_vars

\* C40 (ReconnectSpec), as stated: no request that arrives after its
\* session disconnected and reconnected is served from a cache entry that
\* was written before the disconnect.
C40_NoEntryFromBeforeDisconnect ==
  [][\A r \in ReqIds :
       (CacheRead(r) /\ slot'[r].hit /\ slot'[r].pc # "fetching") =>
         ~callback[slot[r].sessionId].entryPredatesDisconnect]_vars

====
